---- MODULE Spec2Model ----
(***************************************************************************)
(* The orchestrator decision loop of src/agent/langtrace.py:               *)
(* runnable_agent drives orchestrator_agent for at most max_steps rounds.  *)
(* The language model is an external collaborator: each of its two answers *)
(* per round is drawn from a small set of texts.  Tool functions are the   *)
(* deterministic stubs of src/agent/tool_functions.py.                     *)
(*                                                                         *)
(* Specifications:                                                         *)
(*   Spec        one run of runnable_agent, no transport failure           *)
(*   FaultSpec   the same run with model calls and tools that may raise    *)
(*   ParserSpec  decide_and_call_tool, agent_output_parser and execute_tool *)
(*               each called on its own                                    *)
(*   CallsSpec   several calls of runnable_agent, their rounds interleaved *)
(*   WebhookSpec one request to POST /webhook (src/api/main.py,            *)
(*               src/main.py) or to POST /register-webhook                 *)
(***************************************************************************)
EXTENDS Integers, Sequences, FiniteSets, TLC

\* ------------------------------------------------------------------ bounds

\* The model stub answers each round with one (tool-selection text, decision
\* text) pair; between rounds it may replace one of the two texts, at most
\* MaxSwitches times during a run.
MaxSwitches == 1

\* the last round at whose start the stub may change its answers
MaxSwitchRound == 4

\* ------------------------------------------------------- registries, names

max_steps == 10

TOOLS ==
  << "search_latest_knowledge", "vector_store_retriever",
     "batch_process_client_docs", "lookup_HSCode_details" >>

AGENTS == << "declaration_review", "regulatory_sustainability", "sourcing_logistics" >>

Range(s) == { s[i] : i \in DOMAIN s }

ToolNames == Range(TOOLS)

\* str.lower() on the strings the model texts below can contain
Lower(s) ==
  CASE s = "Done" -> "done"
    [] s = " Done " -> " done "
    [] s = "DECLARATION_REVIEW" -> "declaration_review"
    [] s = "lookup_HSCode_details" -> "lookup_hscode_details"
    [] s = "VectorStoreRetriever" -> "vectorstoreretriever"
    [] s = "Glassbox" -> "glassbox"
    [] s = "GLASSBOX" -> "glassbox"
    [] s = "Alice" -> "alice"
    [] s = "Unassigned" -> "unassigned"
    [] OTHER -> s

\* str.strip() on the same strings
Strip(s) ==
  CASE s = " Done " -> "Done"
    [] s = " done " -> "done"
    [] s = " " -> ""
    [] OTHER -> s

\* iterating a Python str yields its characters
Chars(s) ==
  CASE s = "done" -> << "d", "o", "n", "e" >>
    [] s = "sourcing_logistics" ->
         << "s", "o", "u", "r", "c", "i", "n", "g", "_",
            "l", "o", "g", "i", "s", "t", "i", "c", "s" >>
    [] s = "" -> << >>
    [] OTHER -> << s >>

allowed_agents == { Lower(AGENTS[i]) : i \in DOMAIN AGENTS }

\* ------------------------------------------------------------- model texts

\* A tool-selection text is a sequence of atoms: the characters comma, double
\* quote, brackets, space and newline stand for themselves, every other atom
\* is a word (a run of characters other than these).
Whitespace == { " ", "\n" }

\* the words that are JSON values on their own (null, a number, an object)
JsonWords == { "null", "1", "{}" }

\* the text the atoms spell
RECURSIVE Join(_)
Join(atoms) == IF atoms = << >> THEN "" ELSE Head(atoms) \o Join(Tail(atoms))

\* the tool-selection texts the model stub of the loop can answer with:
\* the empty text, a JSON array, two comma lists, a JSON value that is no
\* array, a comma list of an agent name and a spelling of the sentinel
SelTexts ==
  { << >>,
    << "[", "\"", "lookup_HSCode_details", "\"", "]" >>,
    << "unknown_tool", ",", " " >>,
    << "lookup_HSCode_details", ",", "vector_store_retriever" >>,
    << "null" >>,
    << "sourcing_logistics", ",", "Done" >> }

\* the empty confidences mapping {}
NoConfidences == [a \in {} |-> 0]

\* A decision text, by what json.loads yields for it:
\*   t = "bad"   - not JSON
\*   t = "other" - a JSON value that is not an object
\*   t = "obj"   - a JSON object.  cot and conf hold the values of its keys
\*                 chain_of_thought and confidences (empty: no such key); its
\*                 routing_decision value has kind k:
\*                 list (of strings v), str (the bare string v[1]), null, num,
\*                 mixed (a list holding a non-string item), absent (no such key)
DecText(t, cot, k, v, conf) ==
  [t |-> t, cot |-> cot, k |-> k, v |-> v, conf |-> conf]

\* a JSON object with all three keys
Obj(k, v) == DecText("obj", << "reasoning" >>, k, v, << NoConfidences >>)

\* the decision texts the model stub of the loop can answer with
DecTexts ==
  { DecText("bad", << >>, "absent", << >>, << >>),
    Obj("list", << "done" >>),
    Obj("list", << "sourcing_logistics" >>),
    Obj("list", << "DECLARATION_REVIEW" >>),
    Obj("list", << "unknown_agent" >>),
    Obj("list", << "lookup_HSCode_details" >>),
    Obj("list", << "done", "sourcing_logistics" >>),
    Obj("list", << "done", "done" >>),
    Obj("str", << "done" >>),
    Obj("str", << "sourcing_logistics" >>),
    Obj("null", << >>),
    Obj("mixed", << "unknown_agent" >>),
    Obj("absent", << >>) }

Responses == [sel : SelTexts, dec : DecTexts]

\* ---------------------------------------------------------- pure functions

\* [t.strip() for t in s]
StripAll(s) == [i \in DOMAIN s |-> Strip(s[i])]

\* [a.lower() for a in s]
LowerAll(s) == [i \in DOMAIN s |-> Lower(s[i])]

NonEmpty(x) == x # ""

\* str.strip() on a sequence of atoms
RECURSIVE StripLeft(_)
StripLeft(a) ==
  IF a # << >> /\ Head(a) \in Whitespace THEN StripLeft(Tail(a)) ELSE a

RECURSIVE StripRight(_)
StripRight(a) ==
  IF a # << >> /\ a[Len(a)] \in Whitespace
  THEN StripRight(SubSeq(a, 1, Len(a) - 1)) ELSE a

StripAtoms(a) == StripRight(StripLeft(a))

\* ',' in content
Contains(text, c) == \E i \in 1 .. Len(text) : text[i] = c

\* content.split(sep): the pieces between the separators, at least one piece
Split(text, sep) ==
  LET RECURSIVE S(_, _, _)
      S(i, cur, acc) ==
        IF i > Len(text) THEN Append(acc, cur)
        ELSE IF text[i] = sep THEN S(i + 1, << >>, Append(acc, cur))
        ELSE S(i + 1, Append(cur, text[i]), acc)
  IN S(1, << >>, << >>)

NotJson == [ok |-> FALSE, kind |-> "none", items |-> << >>]

\* json.loads on the atoms between the brackets of an array: the items, each a
\* string (its atoms) or a JSON word.  An item that is itself an array is
\* refused here; the code reaches the same fallback for it, through the
\* AttributeError of t.strip().
ScanArray(t) ==
  LET RECURSIVE S(_, _, _, _)
      S(i, mode, cur, acc) ==
        IF i > Len(t)
        THEN IF mode = "after" \/ (mode = "first" /\ acc = << >>)
             THEN [ok |-> TRUE, kind |-> "list", items |-> acc]
             ELSE NotJson
        ELSE
          CASE mode = "string" ->
                 IF t[i] = "\""
                 THEN S(i + 1, "after", << >>,
                        Append(acc, [str |-> TRUE, atoms |-> cur]))
                 ELSE IF t[i] = "\n" THEN NotJson
                 ELSE S(i + 1, "string", Append(cur, t[i]), acc)
            [] mode \in { "first", "value" } ->
                 IF t[i] \in Whitespace THEN S(i + 1, mode, cur, acc)
                 ELSE IF t[i] = "\"" THEN S(i + 1, "string", << >>, acc)
                 ELSE IF t[i] \in JsonWords
                 THEN S(i + 1, "after", << >>,
                        Append(acc, [str |-> FALSE, atoms |-> << t[i] >>]))
                 ELSE NotJson
            [] OTHER ->
                 IF t[i] \in Whitespace THEN S(i + 1, mode, cur, acc)
                 ELSE IF t[i] = "," THEN S(i + 1, "value", << >>, acc)
                 ELSE NotJson
  IN S(1, "first", << >>, << >>)

\* json.loads(content) as decide_and_call_tool uses it: whether the text is
\* JSON, whether the value is a list, and the list's items
json_loads(content) ==
  LET t == StripAtoms(content)
      n == Len(t)
  IN
  IF n = 1 /\ t[1] \in JsonWords
  THEN [ok |-> TRUE, kind |-> "other", items |-> << >>]
  ELSE IF n >= 2 /\ t[1] = "\"" /\ t[n] = "\""
          /\ \A i \in 2 .. n - 1 : t[i] \notin { "\"", "\n" }
  THEN [ok |-> TRUE, kind |-> "other", items |-> << >>]
  ELSE IF n >= 2 /\ t[1] = "[" /\ t[n] = "]"
  THEN ScanArray(SubSeq(t, 2, n - 1))
  ELSE NotJson

\* [t.strip() for t in pieces]
StripEach(pieces) == [i \in DOMAIN pieces |-> Join(StripAtoms(pieces[i]))]

\* mutant of JsonItems: the items as the model wrote them
JsonItems_Untrimmed(items) == [i \in DOMAIN items |-> Join(items[i].atoms)]

\* line 69: [t.strip() for t in tool_decisions]
JsonItems(items) == [i \in DOMAIN items |-> Join(StripAtoms(items[i].atoms))]

\* lines 70-75: the except branch
Fallback(content) ==
  IF Contains(content, ",")
  THEN SelectSeq(StripEach(Split(content, ",")), NonEmpty)
  ELSE SelectSeq(StripEach(Split(content, "\n")), NonEmpty)

\* decide_and_call_tool's parsing of the model text (lines 59-75): a list of
\* names, or None when the text is valid JSON that is not a list.
decide_and_call_tool(text) ==
  LET content == StripAtoms(text)
      tool_decisions == json_loads(content)
  IN
  IF ~tool_decisions.ok
  THEN [kind |-> "list", items |-> Fallback(content)]
  ELSE IF tool_decisions.kind # "list"
  THEN [kind |-> "none", items |-> << >>]
  ELSE IF \A i \in DOMAIN tool_decisions.items : tool_decisions.items[i].str
  THEN [kind |-> "list", items |-> JsonItems(tool_decisions.items)]
  ELSE [kind |-> "list", items |-> Fallback(content)]

\* the record agent_output_parser returns from its except branch
SafeDefault ==
  [chain_of_thought |-> "Could not parse LLM output.",
   routing_decision |-> [k |-> "list", v |-> << >>],
   confidences |-> NoConfidences]

\* data.get(key, default); value is empty when the object has no such key
Get(value, default) == IF value = << >> THEN default ELSE value[1]

\* the body of agent_output_parser's try (lines 99-106): json.loads raises on
\* text that is not JSON, data.get raises on a JSON value that is no object
TryParse(content) ==
  CASE content.t = "bad" -> [raised |-> TRUE, error |-> "JSONDecodeError"]
    [] content.t = "other" -> [raised |-> TRUE, error |-> "AttributeError"]
    [] OTHER ->
         [raised |-> FALSE, error |-> "",
          value |->
            [chain_of_thought |-> Get(content.cot, ""),
             routing_decision |->
               Get(IF content.k = "absent" THEN << >>
                   ELSE << [k |-> content.k, v |-> content.v] >>,
                   [k |-> "list", v |-> << >>]),
             confidences |-> Get(content.conf, NoConfidences)]]

\* mutant of Except: only the JSON decoding error is caught
Except_JsonOnly(attempt) ==
  IF attempt.raised /\ attempt.error = "JSONDecodeError"
  THEN [raised |-> FALSE, error |-> "", value |-> SafeDefault]
  ELSE attempt

\* except Exception (lines 107-112)
Except(attempt) ==
  IF attempt.raised
  THEN [raised |-> FALSE, error |-> "", value |-> SafeDefault]
  ELSE attempt

\* a call of agent_output_parser: whether it raised, and the record returned
agent_output_parser_call(content) == Except(TryParse(content))

\* agent_output_parser
agent_output_parser(content) == agent_output_parser_call(content).value

\* the tool functions of src/agent/tool_functions.py that execute_tool can run
ToolFunctions ==
  { "search_latest_knowledge", "VectorStoreRetriever",
    "process_client_submissions", "lookup_HSCode_details" }

\* mutant of ToolFunction: a name that matches no branch runs the last tool
ToolFunction_Fallthrough(tool_name) ==
  CASE tool_name = "search_latest_knowledge" -> "search_latest_knowledge"
    [] tool_name = "vector_store_retriever" -> "VectorStoreRetriever"
    [] tool_name = "batch_process_client_docs" -> "process_client_submissions"
    [] OTHER -> "lookup_HSCode_details"

\* mutant of ToolFunction: the name is matched without regard to case
ToolFunction_AnyCase(tool_name) ==
  CASE Lower(tool_name) = "search_latest_knowledge" -> "search_latest_knowledge"
    [] Lower(tool_name) = "vector_store_retriever" -> "VectorStoreRetriever"
    [] Lower(tool_name) = "batch_process_client_docs" -> "process_client_submissions"
    [] Lower(tool_name) = "lookup_hscode_details" -> "lookup_HSCode_details"
    [] OTHER -> "none"

\* execute_tool: the tool function run for a name, "none" when no branch
\* matches
ToolFunction(tool_name) ==
  CASE tool_name = "search_latest_knowledge" -> "search_latest_knowledge"
    [] tool_name = "vector_store_retriever" -> "VectorStoreRetriever"
    [] tool_name = "batch_process_client_docs" -> "process_client_submissions"
    [] tool_name = "lookup_HSCode_details" -> "lookup_HSCode_details"
    [] OTHER -> "none"

\* what each tool function returns; "None" when no function was run
ToolResult(f) ==
  CASE f = "search_latest_knowledge" -> "latest_knowledge"
    [] f = "VectorStoreRetriever" -> "vector_store_result"
    [] f = "process_client_submissions" -> "parsed_docs"
    [] f = "lookup_HSCode_details" -> "hscode_result"
    [] OTHER -> "None"

\* execute_tool: the value returned for a name
execute_tool(tool_name) == ToolResult(ToolFunction(tool_name))

\* ------------------------------------------------------------------- state

VARIABLES
  pc,                  \* position of the run inside runnable_agent / orchestrator_agent
  steps,               \* runnable_agent: steps
  tool_outputs,        \* runnable_agent: context["tool_outputs"], name -> stored value
  trajectory,          \* runnable_agent: trajectory
  orchestrator_result, \* runnable_agent: orchestrator_result (result of the last round)
  plan,                \* orchestrator_agent: plan
  tool_output,         \* orchestrator_agent: tool_output
  outcome,             \* the value runnable_agent returned, once it has
  calls,               \* per name, how often execute_tool was called with it
  model_calls,         \* how often chat_openai was called
  rounds,              \* how often orchestrator_agent was called
  stub,                \* the answer pair the model stub currently gives
  switches,            \* how often the stub changed its answer pair
  tool_runs,           \* per tool function, how often execute_tool ran it
  failure,             \* the transport error that a model call or tool raised
  messages,            \* orchestrator_agent: messages of the last decision call
  round_start,         \* the call counts and cache keys when the round began
  parse_pc,            \* a parser call on its own: "input", then "returned"
  parse_fn,            \* the parser called
  sel_text,            \* the tool-selection text given to decide_and_call_tool
  sel_origin,          \* the JSON strings sel_text was written from, if any
  dec_text,            \* the decision text given to agent_output_parser
  parse_result,        \* what the parser call returned
  caches,              \* the dict objects made by {"question": .., "tool_outputs": {}}
  lists,               \* the list objects made by trajectory = []
  invocation,          \* per concurrent call of runnable_agent: its locals
  stored_by,           \* per dict object and key: the call that stored the key
  request,             \* the POST /webhook request being handled
  web_pc,              \* where asana_webhook is in handling it
  event_i,             \* the index of the event the handler's loop is at
  response,            \* the response sent for the request
  effects,             \* the calls made to Asana, the agent and Slack, in order
  routing,             \* the routing_decision the agent returned for the event
  clients_open,        \* the Asana HTTP clients opened and not closed
  task_data,           \* per event: the answer of Asana to the fetch of its task
  sections_data        \* the last answer of Asana to the fetch of the sections

\* the state of one run of runnable_agent
run_vars == << pc, steps, tool_outputs, trajectory, orchestrator_result, plan,
               tool_output, outcome, calls, model_calls, rounds, stub, switches,
               tool_runs, failure, messages, round_start >>

\* the state of a parser call on its own
parser_vars == << parse_pc, parse_fn, sel_text, sel_origin, dec_text,
                  parse_result >>

\* the state of several calls of runnable_agent going on at once
calls_vars == << caches, lists, invocation, stored_by >>

\* the state of the webhook handler
web_vars == << request, web_pc, event_i, response, effects, routing,
               clients_open, task_data, sections_data >>

\* what an action of the run leaves alone
other_vars == << parser_vars, calls_vars, web_vars >>

vars == << run_vars, other_vars >>

Names ==
  ToolNames \cup Range(AGENTS) \cup
  { "done", "Done", " Done ", "DECLARATION_REVIEW", "unknown_agent",
    "unknown_tool", "", " ", "d", "o", "n", "e",
    "s", "u", "r", "c", "i", "g", "_", "l", "t" }

EmptyDict == [n \in {} |-> [result |-> "None", call |-> 0]]

NoPlan == [kind |-> "unbound", items |-> << >>]

\* orchestrator_result before the first round has assigned it
Unbound ==
  [plan |-> NoPlan, tool_output |-> [kind |-> "none", d |-> EmptyDict],
   llm_response |-> DecText("unbound", << >>, "absent", << >>, << >>),
   chain_of_thought |-> "unbound", routing_decision |-> [k |-> "unbound", v |-> << >>],
   confidences |-> NoConfidences]

\* a dict with key n set to value x
Put(d, n, x) == [m \in DOMAIN d \cup {n} |-> IF m = n THEN x ELSE d[m]]

\* what runnable_agent's state is when a round begins (line 167): how often
\* each name was executed and the model was called, and the keys of the cache
RoundStart ==
  [calls |-> calls, model_calls |-> model_calls, cached |-> DOMAIN tool_outputs]

\* no transport error so far
NoFailure == [kind |-> "none", name |-> "", seq |-> 0]

Sum(f) ==
  LET RECURSIVE S(_)
      S(D) == IF D = {} THEN 0
              ELSE LET x == CHOOSE x \in D : TRUE IN f[x] + S(D \ {x})
  IN S(DOMAIN f)

\* One call execute_tool(tool_name, question) in a pass st over a list of
\* names, its return value stored in st.dict under tool_name.  The stored value
\* is the object this call returned: its result and which call made it.
\* st.left is the number of tool functions that still return before one
\* raises (negative: none raises); once one has raised (st.failed) the
\* exception leaves the pass and no later call of the pass is made.
CallAndStore(st, tool_name) ==
  LET c == st.calls[tool_name] + 1
      f == ToolFunction(tool_name)
      called == [st.calls EXCEPT ![tool_name] = c]
      ran == IF f = "none" THEN st.runs ELSE [st.runs EXCEPT ![f] = @ + 1]
  IN
  IF st.failed THEN st
  ELSE IF f # "none" /\ st.left = 0
  THEN [st EXCEPT !.calls = called, !.runs = ran, !.failed = TRUE,
                  !.failure = [kind |-> "tool", name |-> tool_name,
                               seq |-> Sum(called)]]
  ELSE [st EXCEPT !.dict = Put(st.dict, tool_name,
                               [result |-> execute_tool(tool_name), call |-> c]),
                  !.calls = called, !.runs = ran,
                  !.left = IF f = "none" THEN @ ELSE @ - 1]

\* orchestrator_agent's dict comprehension over plan (line 136)
RECURSIVE DispatchFrom(_, _, _)
DispatchFrom(items, i, st) ==
  IF i > Len(items) THEN st
  ELSE DispatchFrom(items, i + 1, CallAndStore(st, items[i]))

\* mutant of MergeGuard: the plan merge stores nothing
MergeGuard_Never(tool_name, cache) == FALSE

\* mutant of MergeGuard: the test for a cached name is missing
MergeGuard_NoCacheTest(tool_name, cache) ==
  /\ tool_name # ""
  /\ tool_name \notin allowed_agents
  /\ tool_name # "done"

\* runnable_agent's test before it executes a tool of the plan (line 180)
MergeGuard(tool_name, cache) ==
  /\ tool_name # ""
  /\ tool_name \notin DOMAIN cache
  /\ tool_name \notin allowed_agents
  /\ tool_name # "done"

\* runnable_agent's loop over plan_tools (lines 179-181)
RECURSIVE MergeFrom(_, _, _)
MergeFrom(items, i, st) ==
  IF i > Len(items) THEN st
  ELSE MergeFrom(items, i + 1,
                 IF MergeGuard(items[i], st.dict) THEN CallAndStore(st, items[i]) ELSE st)

\* mutant of SecondaryGuard: a cached name is dispatched again
SecondaryGuard_Always(tool_name, cache) == TRUE

\* mutant of SecondaryGuard: agent names and the sentinel are skipped, as in
\* the plan merge
SecondaryGuard_SkipsAgents(tool_name, cache) ==
  /\ tool_name \notin DOMAIN cache
  /\ tool_name \notin allowed_agents
  /\ tool_name # "done"

\* runnable_agent's test before it executes a name of routing_decision (line 188)
SecondaryGuard(tool_name, cache) == tool_name \notin DOMAIN cache

\* runnable_agent's loop over routing_decision (lines 187-195)
RECURSIVE SecondaryFrom(_, _, _)
SecondaryFrom(items, i, st) ==
  IF i > Len(items) THEN st
  ELSE SecondaryFrom(items, i + 1,
                     IF SecondaryGuard(items[i], st.dict)
                     THEN CallAndStore(st, items[i]) ELSE st)

\* what a for loop over routing_decision iterates
Iterate(rd) == IF rd.k = "str" THEN Chars(rd.v[1]) ELSE rd.v

\* iterating or lower-casing routing_decision raises (None, a number, a
\* non-string item)
Raises(rd) == rd.k \in { "null", "num", "mixed" }

\* mutant of Normalized: the names are trimmed but not lower-cased
Normalized_NoLower(rd) == StripAll(Iterate(rd))

\* line 183
Normalized(rd) == StripAll(LowerAll(Iterate(rd)))

\* mutant of TerminationCheck: an empty list does not pass
TerminationCheck_NonEmpty(normalized) ==
  /\ normalized # << >>
  /\ \/ \A i \in DOMAIN normalized : normalized[i] \in allowed_agents
     \/ normalized = << "done" >>

\* mutant of TerminationCheck: any() in place of all()
TerminationCheck_Any(normalized) ==
  \/ \E i \in DOMAIN normalized : normalized[i] \in allowed_agents
  \/ normalized = << "done" >>

\* line 184
TerminationCheck(normalized) ==
  \/ \A i \in DOMAIN normalized : normalized[i] \in allowed_agents
  \/ normalized = << "done" >>

\* mutant of StepsIncrement: the counter is not advanced
StepsIncrement_Skip(s) == s

\* steps += 1 (line 196)
StepsIncrement(s) == s + 1

\* mutant of LoopCondition: off by one
LoopCondition_OffByOne(s) == s <= max_steps

\* the while condition (line 166)
LoopCondition(s) == s < max_steps

\* mutant of TrajectoryAppend: the list is rebuilt from the new entry alone
TrajectoryAppend_Reset(traj, entry) == << entry >>

\* trajectory.append (lines 168-171)
TrajectoryAppend(traj, entry) == Append(traj, entry)

\* mutant of RunOutcome: final_decision is taken from the first entry
RunOutcome_First(traj, result) ==
  [trajectory |-> traj, final_decision |-> traj[1].orchestrator_result]

\* the returned value (lines 197-200)
RunOutcome(traj, result) == [trajectory |-> traj, final_decision |-> result]

\* no value returned yet
NoOutcome == [trajectory |-> << >>, final_decision |-> Unbound]

\* no origin: the text was not written from a list of strings
NoOrigin == [made |-> FALSE, items |-> << >>]

NoResult == [raised |-> FALSE, error |-> "", value |-> "none"]

\* no parser is called on its own
NoParserCall ==
  /\ parse_pc = "idle"
  /\ parse_fn = "none"
  /\ sel_text = << >>
  /\ sel_origin = NoOrigin
  /\ dec_text = DecText("bad", << >>, "absent", << >>, << >>)
  /\ parse_result = NoResult

\* no response sent
NoResponse == [status |-> 0, x_hook_secret |-> << >>, content |-> ""]

\* the handler has no routing_decision yet
NoRouting == [k |-> "unbound", v |-> << >>]

\* the handler has not fetched the sections of the project
NoSections == [ok |-> FALSE, names |-> {}]

\* no webhook request is being handled
NoRequest ==
  /\ request = [app |-> "none", x_hook_secret |-> << >>, body |-> "absent",
                events |-> << >>]
  /\ web_pc = "idle"
  /\ event_i = 0
  /\ response = NoResponse
  /\ effects = << >>
  /\ routing = NoRouting
  /\ clients_open = 0
  /\ task_data = << >>
  /\ sections_data = NoSections

\* how many calls of runnable_agent go on at once
NumCalls == 2

Callers == 1 .. NumCalls

\* the locals of a call of runnable_agent that has not started: no objects yet
NotStarted ==
  [pc |-> "new", cache |-> 0, trajectory |-> 0, steps |-> 0,
   answers |-> [sel |-> << >>, dec |-> DecText("bad", << >>, "absent", << >>, << >>)],
   orchestrator_result |-> Unbound, outcome |-> NoOutcome,
   started_with |-> {}, context_seen |-> {}]

\* no concurrent calls of runnable_agent are modelled
NoCalls ==
  /\ caches = [a \in Callers |-> EmptyDict]
  /\ lists = [a \in Callers |-> << >>]
  /\ invocation = [c \in Callers |-> NotStarted]
  /\ stored_by = [a \in Callers |-> [n \in {} |-> 0]]

\* mutant of Propagate: the failed call is caught and made again
Propagate_Retry(position) == position

\* where control goes when a call raises: out of runnable_agent
Propagate(position) == "failed"

\* ----------------------------------------------------------------- actions

Init ==
  /\ pc = "select"
  /\ steps = 0
  /\ tool_outputs = EmptyDict
  /\ trajectory = << >>
  /\ orchestrator_result = Unbound
  /\ plan = NoPlan
  /\ tool_output = [kind |-> "none", d |-> EmptyDict]
  /\ outcome = NoOutcome
  /\ calls = [n \in Names |-> 0]
  /\ model_calls = 0
  /\ rounds = 0
  /\ stub \in Responses
  /\ switches = 0
  /\ tool_runs = [f \in ToolFunctions |-> 0]
  /\ failure = NoFailure
  /\ messages = << >>
  /\ round_start = RoundStart
  /\ NoParserCall
  /\ NoCalls
  /\ NoRequest

\* a pass of execute_tool calls that starts with the dict d; the tool function
\* numbered left + 1 among those it runs raises (none when left < 0)
Pass(d, left) ==
  [dict |-> d, calls |-> calls, runs |-> tool_runs, left |-> left,
   failed |-> FALSE, failure |-> NoFailure]

\* the number of tool functions a pass has run
RunsIn(st) == Sum(st.runs) - Sum(tool_runs)

\* a message, and the tool outputs its content lists (none but for the
\* tool-output message)
Message(role, content, d) == [role |-> role, content |-> content, tool_outputs |-> d]

\* lines 35-37: the tool-output message, added when the dict is not empty
ToolContext(d) ==
  IF DOMAIN d # {} THEN << Message("system", "Tool outputs", d) >> ELSE << >>

\* chat_prompt_template (lines 31-38) as orchestrator_agent calls it at line
\* 141: system_message and question are texts, tool_outputs is the dict that
\* runnable_agent passed to orchestrator_agent
chat_prompt_template(d) ==
  << Message("system", "system_message", EmptyDict),
     Message("user", "question", EmptyDict) >> \o ToolContext(d)

\* decide_and_call_tool's result for each tool-selection text of the stub
PlanFor == [text \in SelTexts |-> decide_and_call_tool(text)]

\* the answer pair the stub gives in the round that starts
StubAnswers(r) ==
  \/ r = stub /\ switches' = switches
  \/ /\ r # stub
     /\ r.sel = stub.sel \/ r.dec = stub.dec
     /\ rounds > 0
     /\ rounds < MaxSwitchRound
     /\ switches < MaxSwitches
     /\ switches' = switches + 1

\* orchestrator_agent is entered and asks the model which tools to use
\* (lines 167, 128-132; decide_and_call_tool lines 54-75)
SelectTools ==
  /\ pc = "select"
  /\ \E r \in Responses :
       /\ StubAnswers(r)
       /\ stub' = r
       /\ plan' = PlanFor[r.sel]
  /\ round_start' = RoundStart
  /\ rounds' = rounds + 1
  /\ model_calls' = model_calls + 1
  /\ tool_output' = [kind |-> "none", d |-> EmptyDict]
  /\ pc' = "dispatch"
  /\ UNCHANGED << steps, tool_outputs, trajectory, orchestrator_result,
                  outcome, calls, tool_runs, failure >>
  /\ UNCHANGED << messages, other_vars >>

\* orchestrator_agent executes every tool of the plan (lines 134-138)
DispatchPlan ==
  /\ pc = "dispatch"
  /\ LET st == DispatchFrom(plan.items, 1, Pass(EmptyDict, -1)) IN
       /\ tool_output' = IF plan.kind = "list"
                         THEN [kind |-> "dict", d |-> st.dict]
                         ELSE [kind |-> "none", d |-> EmptyDict]
       /\ calls' = IF plan.kind = "list" THEN st.calls ELSE calls
       /\ tool_runs' = IF plan.kind = "list" THEN st.runs ELSE tool_runs
  /\ pc' = "decide"
  /\ UNCHANGED << steps, tool_outputs, trajectory, orchestrator_result, plan,
                  outcome, model_calls, rounds, stub, switches, failure >>
  /\ UNCHANGED << messages, round_start, other_vars >>

\* orchestrator_agent asks the model for the decision and returns; runnable_agent
\* appends the result to the trajectory (lines 139-153, 167-171)
Decide ==
  /\ pc = "decide"
  /\ LET parsed_llm == agent_output_parser(stub.dec)
         result == [plan |-> plan, tool_output |-> tool_output,
                    llm_response |-> stub.dec,
                    chain_of_thought |-> parsed_llm.chain_of_thought,
                    routing_decision |-> parsed_llm.routing_decision,
                    confidences |-> parsed_llm.confidences]
     IN /\ orchestrator_result' = result
        /\ trajectory' = TrajectoryAppend(trajectory,
                                           [orchestrator_result |-> result,
                                            tool_outputs |-> tool_outputs])
  /\ messages' = chat_prompt_template(tool_outputs)
  /\ model_calls' = model_calls + 1
  /\ pc' = "merge"
  /\ UNCHANGED << steps, tool_outputs, plan, tool_output, outcome, calls,
                  rounds, stub, switches, tool_runs, failure >>
  /\ UNCHANGED << round_start, other_vars >>

\* runnable_agent executes the plan's tools that are not cached (lines 172-181)
MergePlan ==
  /\ pc = "merge"
  /\ LET st == MergeFrom(orchestrator_result.plan.items, 1, Pass(tool_outputs, -1)) IN
       /\ tool_outputs' = st.dict
       /\ calls' = st.calls
       /\ tool_runs' = st.runs
  /\ pc' = "check"
  /\ UNCHANGED << steps, trajectory, orchestrator_result, plan, tool_output,
                  outcome, model_calls, rounds, stub, switches, failure >>
  /\ UNCHANGED << messages, round_start, other_vars >>

\* the termination check (lines 182-185): break, go on, or raise
CheckTermination ==
  /\ pc = "check"
  /\ LET rd == orchestrator_result.routing_decision IN
       pc' = IF Raises(rd) THEN "raised"
             ELSE IF TerminationCheck(Normalized(rd)) THEN "return"
             ELSE "secondary"
  /\ UNCHANGED << steps, tool_outputs, trajectory, orchestrator_result, plan,
                  tool_output, outcome, calls, model_calls, rounds, stub,
                  switches, tool_runs, failure >>
  /\ UNCHANGED << messages, round_start, other_vars >>

\* the dispatch driven by routing_decision, steps += 1 and the while test
\* (lines 186-196, 166)
SecondaryDispatch ==
  /\ pc = "secondary"
  /\ LET st == SecondaryFrom(Iterate(orchestrator_result.routing_decision), 1,
                             Pass(tool_outputs, -1)) IN
       /\ tool_outputs' = st.dict
       /\ calls' = st.calls
       /\ tool_runs' = st.runs
  /\ steps' = StepsIncrement(steps)
  /\ pc' = IF LoopCondition(StepsIncrement(steps)) THEN "select" ELSE "return"
  /\ UNCHANGED << trajectory, orchestrator_result, plan, tool_output,
                  outcome, model_calls, rounds, stub, switches, failure >>
  /\ UNCHANGED << messages, round_start, other_vars >>

\* lines 197-200
Return ==
  /\ pc = "return"
  /\ outcome' = RunOutcome(trajectory, orchestrator_result)
  /\ pc' = "done"
  /\ UNCHANGED << steps, tool_outputs, trajectory, orchestrator_result, plan,
                  tool_output, calls, model_calls, rounds, stub, switches,
                  tool_runs, failure >>
  /\ UNCHANGED << messages, round_start, other_vars >>

Next ==
  \/ SelectTools
  \/ DispatchPlan
  \/ Decide
  \/ MergePlan
  \/ CheckTermination
  \/ SecondaryDispatch
  \/ Return

Spec == Init /\ [][Next]_vars

\* ------------------------------------------- transport failures (section 7)

\* the tool-selection model call raises (chat_openai at line 57 is outside
\* decide_and_call_tool's try)
SelectToolsFails ==
  /\ pc = "select"
  /\ \E r \in Responses : StubAnswers(r) /\ stub' = r
  /\ round_start' = RoundStart
  /\ rounds' = rounds + 1
  /\ model_calls' = model_calls + 1
  /\ failure' = [kind |-> "model", name |-> "select", seq |-> Sum(calls)]
  /\ pc' = Propagate(pc)
  /\ UNCHANGED << steps, tool_outputs, trajectory, orchestrator_result, plan,
                  tool_output, outcome, calls, tool_runs >>
  /\ UNCHANGED << messages, other_vars >>

\* a tool function raises inside orchestrator_agent's dispatch (line 136)
DispatchPlanFails ==
  /\ pc = "dispatch"
  /\ plan.kind = "list"
  /\ \E left \in 0 .. RunsIn(DispatchFrom(plan.items, 1, Pass(EmptyDict, -1))) - 1 :
       LET st == DispatchFrom(plan.items, 1, Pass(EmptyDict, left)) IN
         /\ calls' = st.calls
         /\ tool_runs' = st.runs
         /\ failure' = st.failure
  /\ pc' = Propagate(pc)
  /\ UNCHANGED << steps, tool_outputs, trajectory, orchestrator_result, plan,
                  tool_output, outcome, model_calls, rounds, stub, switches >>
  /\ UNCHANGED << messages, round_start, other_vars >>

\* the decision model call raises (line 142): orchestrator_agent does not
\* return and nothing is appended to the trajectory
DecideFails ==
  /\ pc = "decide"
  /\ model_calls' = model_calls + 1
  /\ failure' = [kind |-> "model", name |-> "decide", seq |-> Sum(calls)]
  /\ pc' = Propagate(pc)
  /\ UNCHANGED << steps, tool_outputs, trajectory, orchestrator_result, plan,
                  tool_output, outcome, calls, rounds, stub, switches, tool_runs >>
  /\ UNCHANGED << messages, round_start, other_vars >>

\* a tool function raises inside the plan merge (line 181); the tools stored
\* before it stay in the cache
MergePlanFails ==
  /\ pc = "merge"
  /\ \E left \in 0 .. RunsIn(MergeFrom(orchestrator_result.plan.items, 1,
                                       Pass(tool_outputs, -1))) - 1 :
       LET st == MergeFrom(orchestrator_result.plan.items, 1,
                           Pass(tool_outputs, left)) IN
         /\ tool_outputs' = st.dict
         /\ calls' = st.calls
         /\ tool_runs' = st.runs
         /\ failure' = st.failure
  /\ pc' = Propagate(pc)
  /\ UNCHANGED << steps, trajectory, orchestrator_result, plan, tool_output,
                  outcome, model_calls, rounds, stub, switches >>
  /\ UNCHANGED << messages, round_start, other_vars >>

\* a tool function raises inside the routing-driven dispatch (lines 193, 195)
SecondaryDispatchFails ==
  /\ pc = "secondary"
  /\ \E left \in 0 .. RunsIn(SecondaryFrom(Iterate(orchestrator_result.routing_decision),
                                           1, Pass(tool_outputs, -1))) - 1 :
       LET st == SecondaryFrom(Iterate(orchestrator_result.routing_decision), 1,
                               Pass(tool_outputs, left)) IN
         /\ tool_outputs' = st.dict
         /\ calls' = st.calls
         /\ tool_runs' = st.runs
         /\ failure' = st.failure
  /\ pc' = Propagate(pc)
  /\ UNCHANGED << steps, trajectory, orchestrator_result, plan, tool_output,
                  outcome, model_calls, rounds, stub, switches >>
  /\ UNCHANGED << messages, round_start, other_vars >>

FaultNext ==
  \/ SelectTools
  \/ DispatchPlan
  \/ Decide
  \/ MergePlan
  \/ CheckTermination
  \/ SecondaryDispatch
  \/ Return
  \/ SelectToolsFails
  \/ DispatchPlanFails
  \/ DecideFails
  \/ MergePlanFails
  \/ SecondaryDispatchFails

\* the loop with transport failures of the model and of the tools
FaultSpec == Init /\ [][FaultNext]_vars

\* ------------------------------------------- the parsers on their own

\* longest tool-selection text drawn atom by atom
MaxTextLen == 4

\* most strings in a JSON array written for the parser
MaxItems == 2

\* all sequences over S of length at most n
SeqsUpTo(S, n) == UNION { [1 .. k -> S] : k \in 0 .. n }

Atoms == { "a", "b", ",", "\n", " ", "[", "]", "\"", "null" }

\* every text of at most MaxTextLen atoms
RawTexts == SeqsUpTo(Atoms, MaxTextLen)

\* texts of the parser's documented examples that are longer than that
ExampleTexts ==
  { << "a", ",", " ", "b", ",", " ", "c" >>,
    << "[", "\"", "a", "\"", ",", "\"", "b", "\"", "]" >>,
    << "[", "\"", "a", "\"", ",", " ", "1", "]" >>,
    << "\"", "a", ",", "b", "\"" >>,
    << " ", "a", "\n", "\n", " ", "b", "\n" >>,
    << "{}" >>, << "1" >> }

\* strings a JSON array can hold: their atoms and what str.strip() leaves of them
ItemStrings ==
  { [atoms |-> << "a" >>, trimmed |-> "a"],
    [atoms |-> << "b" >>, trimmed |-> "b"],
    [atoms |-> << " ", "b", " " >>, trimmed |-> "b"],
    [atoms |-> << >>, trimmed |-> ""],
    [atoms |-> << "a", ",", "b" >>, trimmed |-> "a,b"] }

\* how a writer may separate the items of an array
Separators == { << "," >>, << ",", " " >>, << " ", ",", "\n" >> }

\* the JSON text of an array of strings
RenderArray(its, sep) ==
  LET RECURSIVE R(_)
      R(i) == IF i > Len(its) THEN << "]" >>
              ELSE (IF i > 1 THEN sep ELSE << >>)
                   \o << "\"" >> \o its[i].atoms \o << "\"" >> \o R(i + 1)
  IN << "[" >> \o R(1)

\* the decision texts given to agent_output_parser on its own
DecInputs ==
  { DecText("bad", << >>, "absent", << >>, << >>),
    DecText("other", << >>, "absent", << >>, << >>) }
  \cup
  { DecText("obj", cot, rd[1], rd[2], conf) :
      cot \in { << >>, << "reasoning" >>, << "" >> },
      rd \in { << "absent", << >> >>, << "list", << >> >>,
               << "list", << "done" >> >>,
               << "list", << "done", "sourcing_logistics" >> >>,
               << "str", << "done" >> >>, << "null", << >> >>,
               << "num", << >> >>, << "mixed", << "unknown_agent" >> >> },
      conf \in { << >>, << NoConfidences >>,
                 << [a \in { "sourcing_logistics" } |-> 9] >> } }

\* no run of runnable_agent is going on
NoRun ==
  /\ pc = "idle"
  /\ steps = 0
  /\ tool_outputs = EmptyDict
  /\ trajectory = << >>
  /\ orchestrator_result = Unbound
  /\ plan = NoPlan
  /\ tool_output = [kind |-> "none", d |-> EmptyDict]
  /\ outcome = NoOutcome
  /\ calls = [n \in Names |-> 0]
  /\ model_calls = 0
  /\ rounds = 0
  /\ stub = [sel |-> << >>, dec |-> DecText("bad", << >>, "absent", << >>, << >>)]
  /\ switches = 0
  /\ tool_runs = [f \in ToolFunctions |-> 0]
  /\ failure = NoFailure
  /\ messages = << >>
  /\ round_start = RoundStart

\* the names execute_tool is called with on its own: every name of the model
\* texts, a tool name in another case and the names of two tool functions that
\* are not registry names
ToolInputs ==
  Names \cup { "lookup_hscode_details", "VectorStoreRetriever",
               "process_client_submissions" }

ParserInit ==
  /\ NoRun
  /\ NoCalls
  /\ NoRequest
  /\ parse_pc = "input"
  /\ parse_result = NoResult
  /\ \/ /\ parse_fn = "decide_and_call_tool"
        /\ sel_text \in RawTexts \cup ExampleTexts
        /\ sel_origin = NoOrigin
        /\ dec_text = DecText("bad", << >>, "absent", << >>, << >>)
     \/ /\ parse_fn = "decide_and_call_tool"
        /\ \E its \in SeqsUpTo(ItemStrings, MaxItems), sep \in Separators :
             /\ sel_text = RenderArray(its, sep)
             /\ sel_origin = [made |-> TRUE, items |-> its]
        /\ dec_text = DecText("bad", << >>, "absent", << >>, << >>)
     \/ /\ parse_fn = "agent_output_parser"
        /\ dec_text \in DecInputs
        /\ sel_text = << >>
        /\ sel_origin = NoOrigin
     \/ /\ parse_fn = "execute_tool"
        /\ \E tool_name \in ToolInputs : sel_text = << tool_name >>
        /\ sel_origin = NoOrigin
        /\ dec_text = DecText("bad", << >>, "absent", << >>, << >>)

\* decide_and_call_tool parses the model's text (lines 59-75)
CallSelectionParser ==
  /\ parse_pc = "input"
  /\ parse_fn = "decide_and_call_tool"
  /\ parse_result' = [raised |-> FALSE, error |-> "",
                      value |-> decide_and_call_tool(sel_text)]
  /\ parse_pc' = "returned"
  /\ UNCHANGED << parse_fn, sel_text, sel_origin, dec_text, run_vars, calls_vars,
                  web_vars >>

\* agent_output_parser parses the model's text (lines 97-112)
CallDecisionParser ==
  /\ parse_pc = "input"
  /\ parse_fn = "agent_output_parser"
  /\ parse_result' = agent_output_parser_call(dec_text)
  /\ parse_pc' = "returned"
  /\ UNCHANGED << parse_fn, sel_text, sel_origin, dec_text, run_vars, calls_vars,
                  web_vars >>

\* execute_tool called with the name held in sel_text (lines 114-124): the
\* tool function it runs and the value it returns
CallExecuteTool ==
  /\ parse_pc = "input"
  /\ parse_fn = "execute_tool"
  /\ parse_result' = [raised |-> FALSE, error |-> "",
                      value |-> [function |-> ToolFunction(sel_text[1]),
                                 result |-> execute_tool(sel_text[1])]]
  /\ parse_pc' = "returned"
  /\ UNCHANGED << parse_fn, sel_text, sel_origin, dec_text, run_vars, calls_vars,
                  web_vars >>

ParserNext ==
  \/ CallSelectionParser
  \/ CallDecisionParser
  \/ CallExecuteTool

\* the two parsers and execute_tool applied to every input of the bounded sets
ParserSpec == ParserInit /\ [][ParserNext]_vars

\* ------------------------------- several calls of runnable_agent at once

\* the answers the model gives to a call, the same in each of its rounds:
\* one tool and a routing decision that goes on for max_steps rounds, an
\* unregistered tool and a configured agent, two tools and "done"
CallAnswers ==
  { [sel |-> << "[", "\"", "lookup_HSCode_details", "\"", "]" >>,
     dec |-> Obj("list", << "unknown_agent" >>)],
    [sel |-> << "unknown_tool", ",", " " >>,
     dec |-> Obj("list", << "sourcing_logistics" >>)],
    [sel |-> << "lookup_HSCode_details", ",", "vector_store_retriever" >>,
     dec |-> Obj("list", << "done" >>)] }

\* the objects made so far: each started call has made one dict and one list
Allocated == Cardinality({ c \in Callers : invocation[c].pc # "new" })

\* mutant of Alloc: every call gets the same object
Alloc_Shared(made) == 1

\* a dict or list literal evaluates to a new object (lines 161, 162)
Alloc(made) == made + 1

\* a pass of execute_tool calls of a concurrent call, none of which raises
PassOn(d) ==
  [dict |-> d, calls |-> [n \in Names |-> 0],
   runs |-> [f \in ToolFunctions |-> 0], left |-> -1, failed |-> FALSE,
   failure |-> NoFailure]

\* the keys of dict object a after something was stored into it by call c
StoredBy(a, c, d) ==
  [n \in DOMAIN d |->
     IF n \in DOMAIN stored_by[a] THEN stored_by[a][n] ELSE c]

CallsInit ==
  /\ NoRun
  /\ NoParserCall
  /\ NoCalls
  /\ NoRequest

\* runnable_agent is called: lines 159-166
StartCall(c) ==
  /\ invocation[c].pc = "new"
  /\ \E ans \in CallAnswers :
       LET context == Alloc(Allocated)
           trajectory_ == Alloc(Allocated)
       IN invocation' =
            [invocation EXCEPT ![c] =
               [pc |-> "orchestrate", cache |-> context,
                trajectory |-> trajectory_, steps |-> 0, answers |-> ans,
                orchestrator_result |-> Unbound, outcome |-> NoOutcome,
                started_with |-> DOMAIN caches[context],
                context_seen |-> {}]]
  /\ UNCHANGED << caches, lists, stored_by, run_vars, parser_vars, web_vars >>

\* one call's orchestrator_agent step and the trajectory append (lines 167-171)
Orchestrate(c) ==
  /\ invocation[c].pc = "orchestrate"
  /\ LET inv == invocation[c]
         plan_ == PlanFor[inv.answers.sel]
         st == DispatchFrom(plan_.items, 1, PassOn(EmptyDict))
         parsed_llm == agent_output_parser(inv.answers.dec)
         result == [plan |-> plan_,
                    tool_output |-> IF plan_.kind = "list"
                                    THEN [kind |-> "dict", d |-> st.dict]
                                    ELSE [kind |-> "none", d |-> EmptyDict],
                    llm_response |-> inv.answers.dec,
                    chain_of_thought |-> parsed_llm.chain_of_thought,
                    routing_decision |-> parsed_llm.routing_decision,
                    confidences |-> parsed_llm.confidences]
     IN /\ lists' = [lists EXCEPT ![inv.trajectory] =
                       TrajectoryAppend(@, [orchestrator_result |-> result,
                                            tool_outputs |-> caches[inv.cache],
                                            by |-> c])]
        /\ invocation' = [invocation EXCEPT
                            ![c].pc = "update",
                            ![c].orchestrator_result = result,
                            ![c].context_seen = DOMAIN caches[inv.cache]]
  /\ UNCHANGED << caches, stored_by, run_vars, parser_vars, web_vars >>

\* the rest of one call's round: plan merge, termination check, routing
\* dispatch, steps += 1, and the return when the loop ends (lines 172-200)
Update(c) ==
  /\ invocation[c].pc = "update"
  /\ LET inv == invocation[c]
         rd == inv.orchestrator_result.routing_decision
         merged == MergeFrom(inv.orchestrator_result.plan.items, 1,
                             PassOn(caches[inv.cache])).dict
         stops == ~Raises(rd) /\ TerminationCheck(Normalized(rd))
         after == IF Raises(rd) \/ stops THEN merged
                  ELSE SecondaryFrom(Iterate(rd), 1, PassOn(merged)).dict
         goes_on == ~Raises(rd) /\ ~stops /\ LoopCondition(inv.steps + 1)
     IN /\ caches' = [caches EXCEPT ![inv.cache] = after]
        /\ stored_by' = [stored_by EXCEPT ![inv.cache] = StoredBy(inv.cache, c, after)]
        /\ invocation' =
             [invocation EXCEPT
                ![c].steps = IF Raises(rd) \/ stops THEN @ ELSE @ + 1,
                ![c].pc = IF Raises(rd) THEN "raised"
                          ELSE IF goes_on THEN "orchestrate" ELSE "returned",
                ![c].outcome = IF Raises(rd) \/ goes_on THEN @
                               ELSE RunOutcome(lists[inv.trajectory],
                                               inv.orchestrator_result)]
  /\ UNCHANGED << lists, run_vars, parser_vars, web_vars >>

CallsNext ==
  \E c \in Callers :
    \/ StartCall(c)
    \/ Orchestrate(c)
    \/ Update(c)

\* NumCalls calls of runnable_agent, their rounds interleaved in any order
CallsSpec == CallsInit /\ [][CallsNext]_vars

\* ------------------------------------------ the webhook: POST /webhook

\* most events in a payload
MaxEvents == 2

\* the events of a payload: resource_type, action and change.field ("" when
\* the event has no change field).  change is a Dict[str, Any] (line 43), so
\* its field may be any JSON value: field_is_str tells a string from a number
Events ==
  { [resource_type |-> "task", action |-> "changed", field |-> "assignee",
     field_is_str |-> TRUE],
    [resource_type |-> "task", action |-> "changed", field |-> " Assignee ",
     field_is_str |-> TRUE],
    [resource_type |-> "task", action |-> "changed", field |-> "name",
     field_is_str |-> TRUE],
    [resource_type |-> "task", action |-> "changed", field |-> "7",
     field_is_str |-> FALSE],
    [resource_type |-> "story", action |-> "changed", field |-> "assignee",
     field_is_str |-> TRUE],
    [resource_type |-> "story", action |-> "added", field |-> "",
     field_is_str |-> TRUE] }

\* the answers of Asana to GET /tasks/{gid}: an error status, or a task whose
\* assignee is null (<< >>) or has a name; a task without the assignee key is
\* read as "Unassigned" (lines 228-229)
TaskAnswers ==
  { [ok |-> FALSE, assignee |-> << >>], [ok |-> TRUE, assignee |-> << >>] }
  \cup
  { [ok |-> TRUE, assignee |-> << n >>] :
      n \in { "Glassbox", "GLASSBOX", "Alice", "Unassigned" } }

\* a request to POST /register-webhook of src/api/main.py
RegisterRequest ==
  [app |-> "register", x_hook_secret |-> << >>, body |-> "absent",
   events |-> << >>]

\* a request to POST /webhook of src/api/main.py ("api") or of src/main.py
\* ("root"): the X-Hook-Secret header (none, or its value), and a body that is
\* absent, not a WebhookPayload ("invalid"), or a WebhookPayload with events
Requests ==
  { RegisterRequest }
  \cup
  { [app |-> app, x_hook_secret |-> h, body |-> b, events |-> << >>] :
      app \in { "api", "root" }, h \in { << >>, << "" >>, << "s3cret" >> },
      b \in { "absent", "invalid" } }
  \cup
  { [app |-> app, x_hook_secret |-> h, body |-> "valid", events |-> ev] :
      app \in { "api", "root" }, h \in { << >>, << "" >>, << "s3cret" >> },
      ev \in SeqsUpTo(Events, MaxEvents) }

\* str.strip().lower() on the change fields above
FieldNormalized(field) == IF field = " Assignee " THEN "assignee" ELSE field

\* routing_mapping (src/api/main.py lines 282-295): the Asana section and the
\* Slack channel of a route
routing_mapping ==
  [r \in { "declaration_review", "regulatory_sustainability", "sourcing_logistics" } |->
     CASE r = "declaration_review" ->
            [asana_section |-> "Escalation: Declaration Review / Ambiguity",
             slack_channel |-> "#cases-escalation-ambiguous-regulation"]
       [] r = "regulatory_sustainability" ->
            [asana_section |-> "Agent Handoff: Regulatory and Sustainability",
             slack_channel |-> "#cases-escalation-regulatory-sustainability"]
       [] OTHER ->
            [asana_section |-> "Routine Processing",
             slack_channel |-> "#cases-handoff-sourcing-logistics"]]

\* the routing decisions the agent returns to the handler (parsed_llm's
\* routing_decision, kinds as in DecText): lists of names, the bare string the
\* prompt asks for, null, and a list whose first item is a number ("mixed"
\* with no leading string)
AgentRoutings ==
  { [k |-> "list", v |-> << >>],
    [k |-> "list", v |-> << "sourcing_logistics" >>],
    [k |-> "list", v |-> << "DECLARATION_REVIEW", "done" >>],
    [k |-> "list", v |-> << "unknown_agent" >>],
    [k |-> "list", v |-> << "done" >>],
    [k |-> "str", v |-> << "sourcing_logistics" >>],
    [k |-> "null", v |-> << >>],
    [k |-> "mixed", v |-> << >>] }

\* the answers of Asana to GET /projects/{id}/sections: an error status, or
\* the names of the project's sections
SectionsAnswers ==
  { [ok |-> FALSE, names |-> {}],
    [ok |-> TRUE, names |-> { "Routine Processing" }],
    [ok |-> TRUE, names |-> { routing_mapping[r].asana_section :
                               r \in DOMAIN routing_mapping }] }

\* lines 298 and 380: routing_decision is a list with a first item
HasFirst(rd) == rd.k \in { "list", "mixed" } /\ (rd.k = "list" => rd.v # << >>)

\* mutant of PrimaryRoute: the first name is not lower-cased
PrimaryRoute_NoLower(rd) == rd.v[1]

\* lines 299 and 381, for a list whose first item is a string
PrimaryRoute(rd) == Lower(rd.v[1])

\* mutant of Truthy: no header value counts as a handshake
Truthy_Never(x_hook_secret) == FALSE

\* if x_hook_secret: headers.get gave a value and it is not the empty string
Truthy(x_hook_secret) == x_hook_secret # << >> /\ x_hook_secret[1] # ""

\* line 211
IsTaskChange(event_data) ==
  event_data.resource_type = "task" /\ event_data.action = "changed"

\* line 216, for a field that is a non-empty string
IsAssigneeField(field) == FieldNormalized(field) = "assignee"

\* mutant of AssignedToGlassbox: every assignee passes
AssignedToGlassbox_Any(assignee_name) == TRUE

\* line 235
AssignedToGlassbox(assignee_name) == Lower(assignee_name) = "glassbox"

\* an exception that no try statement of the handler catches: the framework
\* answers the request with status 500
Uncaught ==
  /\ response' = [status |-> 500, x_hook_secret |-> << >>,
                  content |-> "Internal Server Error"]
  /\ web_pc' = "responded"

\* a call the handler made for the event it is at
Effect(what, arg) == [event |-> event_i, what |-> what, arg |-> arg]

\* the step of the loop after the current event
NextEvent ==
  /\ event_i' = event_i + 1
  /\ web_pc' = "event"

WebInit ==
  /\ NoRun
  /\ NoParserCall
  /\ NoCalls
  /\ request \in Requests
  /\ web_pc = "validate"
  /\ event_i = 0
  /\ response = NoResponse
  /\ effects = << >>
  /\ routing = NoRouting
  /\ clients_open = 0
  /\ task_data = << >>
  /\ sections_data = NoSections

\* FastAPI reads the body into the payload parameter (line 172): a body that
\* is no WebhookPayload is answered with 422 and the handler is not called
ValidateBody ==
  /\ web_pc = "validate"
  /\ request # RegisterRequest
  /\ IF request.body = "invalid"
     THEN /\ response' = [status |-> 422, x_hook_secret |-> << >>,
                          content |-> "validation error"]
          /\ web_pc' = "responded"
     ELSE /\ web_pc' = "handler"
          /\ UNCHANGED response
  /\ UNCHANGED << request, event_i, effects, routing, clients_open,
                  task_data, sections_data,
                  run_vars, parser_vars, calls_vars >>

\* lines 179-188
Handshake ==
  /\ web_pc = "handler"
  /\ Truthy(request.x_hook_secret)
  /\ response' = [status |-> 200, x_hook_secret |-> request.x_hook_secret,
                  content |-> "Handshake successful"]
  /\ web_pc' = "responded"
  /\ UNCHANGED << request, event_i, effects, routing, clients_open,
                  task_data, sections_data,
                  run_vars, parser_vars, calls_vars >>

\* lines 191-196
EmptyPayload ==
  /\ web_pc = "handler"
  /\ ~Truthy(request.x_hook_secret)
  /\ request.body = "absent" \/ request.events = << >>
  /\ response' = [status |-> 200, x_hook_secret |-> << >>,
                  content |-> "Acknowledged empty or invalid payload."]
  /\ web_pc' = "responded"
  /\ UNCHANGED << request, event_i, effects, routing, clients_open,
                  task_data, sections_data,
                  run_vars, parser_vars, calls_vars >>

\* line 200: the loop over payload.events is entered
BeginEvents ==
  /\ web_pc = "handler"
  /\ ~Truthy(request.x_hook_secret)
  /\ request.body = "valid" /\ request.events # << >>
  /\ event_i' = 1
  /\ web_pc' = "event"
  /\ UNCHANGED << request, response, effects, routing, clients_open,
                  task_data, sections_data,
                  run_vars, parser_vars, calls_vars >>

\* lines 201-221: the event is looked at; src/main.py only prints it.  A
\* change field that is not a string has no strip(): line 216 raises outside
\* the try statement.  For a change of a task's assignee get_asana_client is
\* called, which raises when there is no access token (caught at line 451)
GateEvent ==
  /\ web_pc = "event"
  /\ event_i <= Len(request.events)
  /\ LET event_data == request.events[event_i] IN
       IF request.app = "api" /\ IsTaskChange(event_data)
       THEN IF event_data.field = ""
            THEN NextEvent /\ UNCHANGED << response, clients_open >>
            ELSE IF ~event_data.field_is_str
            THEN Uncaught /\ UNCHANGED << event_i, clients_open >>
            ELSE IF ~IsAssigneeField(event_data.field)
            THEN NextEvent /\ UNCHANGED << response, clients_open >>
            ELSE \E token \in BOOLEAN :
                   IF token
                   THEN /\ clients_open' = clients_open + 1
                        /\ web_pc' = "task"
                        /\ UNCHANGED << event_i, response >>
                   ELSE NextEvent /\ UNCHANGED << response, clients_open >>
       ELSE NextEvent /\ UNCHANGED << response, clients_open >>
  /\ UNCHANGED << request, effects, routing, task_data,
                  sections_data,
                  run_vars, parser_vars, calls_vars >>

\* lines 222-237: the task is fetched; the event is dropped when the fetch
\* fails (line 224), when the assignee is null (line 229 raises) and when the
\* assignee is not Glassbox
FetchTask ==
  /\ web_pc = "task"
  /\ effects' = Append(effects, Effect("asana_get", "task"))
  /\ \E got \in TaskAnswers :
       /\ task_data' = Put(task_data, event_i, got)
       /\ IF /\ got.ok
             /\ got.assignee # << >>
             /\ AssignedToGlassbox(got.assignee[1])
          THEN web_pc' = "attachments" /\ UNCHANGED event_i
          ELSE NextEvent
  /\ UNCHANGED << request, response, routing, clients_open,
                  sections_data,
                  run_vars, parser_vars, calls_vars >>

\* lines 245-255
FetchAttachments ==
  /\ web_pc = "attachments"
  /\ effects' = Append(effects, Effect("asana_get", "attachments"))
  /\ \E ok \in BOOLEAN :
       IF ok THEN web_pc' = "agent" /\ UNCHANGED event_i ELSE NextEvent
  /\ UNCHANGED << request, response, routing, clients_open,
                  task_data, sections_data,
                  run_vars, parser_vars, calls_vars >>

\* lines 257-279: orchestrator_agent is called and returns a routing decision,
\* or raises
CallAgent ==
  /\ web_pc = "agent"
  /\ \/ /\ effects' = Append(effects, Effect("orchestrator_agent", "returned"))
        /\ routing' \in AgentRoutings
        /\ web_pc' = "move"
        /\ UNCHANGED event_i
     \/ /\ effects' = Append(effects, Effect("orchestrator_agent", "raised"))
        /\ NextEvent
        /\ UNCHANGED routing
  /\ UNCHANGED << request, response, clients_open, task_data,
                  sections_data,
                  run_vars, parser_vars, calls_vars >>

\* lines 297-345: the task is moved to the section of the first route, when
\* the route is mapped and the project has the section; failures are caught.
\* A first item that is no string has no lower(): line 299 raises, which is
\* caught at line 451 and ends the event
MoveTask ==
  /\ web_pc = "move"
  /\ IF HasFirst(routing) /\ routing.k = "mixed"
     THEN /\ NextEvent
          /\ UNCHANGED << effects, sections_data >>
     ELSE /\ web_pc' = "comment"
          /\ UNCHANGED event_i
          /\ IF HasFirst(routing) /\ PrimaryRoute(routing) \in DOMAIN routing_mapping
             THEN \E sections \in SectionsAnswers :
                    /\ sections_data' = sections
                    /\ effects' =
                         effects \o << Effect("asana_get", "sections") >>
                           \o (IF /\ sections.ok
                                  /\ routing_mapping[PrimaryRoute(routing)].asana_section
                                       \in sections.names
                               THEN << Effect("asana_post", "addProject") >>
                               ELSE << >>)
             ELSE UNCHANGED << effects, sections_data >>
  /\ UNCHANGED << request, response, routing, clients_open, task_data,
                  run_vars, parser_vars, calls_vars >>

\* lines 347-372: the comment is posted; a failure is caught
PostComment ==
  /\ web_pc = "comment"
  /\ effects' = Append(effects, Effect("asana_post", "stories"))
  /\ web_pc' = "slack"
  /\ UNCHANGED << request, response, event_i, routing, clients_open,
                  task_data, sections_data,
                  run_vars, parser_vars, calls_vars >>

\* lines 374-449: the Slack message goes to the channel of the first route,
\* or to #claims-escalation; a failure is caught
NotifySlack ==
  /\ web_pc = "slack"
  /\ LET primary_route == IF HasFirst(routing) THEN PrimaryRoute(routing) ELSE ""
         slack_channel == IF primary_route \notin DOMAIN routing_mapping
                          THEN "#claims-escalation"
                          ELSE routing_mapping[primary_route].slack_channel
     IN effects' = Append(effects, Effect("slack", slack_channel))
  /\ web_pc' = "close"
  /\ UNCHANGED << request, response, event_i, routing, clients_open,
                  task_data, sections_data,
                  run_vars, parser_vars, calls_vars >>

\* line 450
CloseClient ==
  /\ web_pc = "close"
  /\ clients_open' = clients_open - 1
  /\ NextEvent
  /\ UNCHANGED << request, response, effects, routing, task_data,
                  sections_data,
                  run_vars, parser_vars, calls_vars >>

\* lines 454-457
Respond ==
  /\ web_pc = "event"
  /\ event_i > Len(request.events)
  /\ response' = [status |-> 200, x_hook_secret |-> << >>,
                  content |-> "Webhook event processed successfully"]
  /\ web_pc' = "responded"
  /\ UNCHANGED << request, event_i, effects, routing, clients_open,
                  task_data, sections_data,
                  run_vars, parser_vars, calls_vars >>

\* an HTTPException leaves register_webhook (lines 468, 494, 558, 564, 575)
HttpError(status_code, detail) ==
  /\ response' = [status |-> status_code, x_hook_secret |-> << >>,
                  content |-> detail]
  /\ web_pc' = "responded"

\* register_webhook, lines 464-475: without the Asana configuration the
\* request is refused, else the client is made
RegisterBegin ==
  /\ web_pc = "validate"
  /\ request = RegisterRequest
  /\ \E configured \in BOOLEAN :
       IF configured
       THEN /\ clients_open' = clients_open + 1
            /\ web_pc' = "verify"
            /\ UNCHANGED response
       ELSE /\ HttpError(500, "Missing required Asana configuration")
            /\ UNCHANGED clients_open
  /\ UNCHANGED << request, event_i, effects, routing, task_data, sections_data,
                  run_vars, parser_vars, calls_vars >>

\* lines 487-498: the project is fetched; when that fails an HTTPException is
\* raised outside the try statement whose finally closes the client
RegisterVerify ==
  /\ web_pc = "verify"
  /\ effects' = Append(effects, Effect("asana_get", "project"))
  /\ \E ok \in BOOLEAN :
       IF ok
       THEN web_pc' = "register" /\ UNCHANGED response
       ELSE HttpError(400, "Invalid project ID or insufficient permissions")
  /\ UNCHANGED << request, event_i, routing, clients_open, task_data,
                  sections_data, run_vars, parser_vars, calls_vars >>

\* lines 526-573: the webhook is registered; the finally clause closes the
\* client whether the post succeeded or raised
RegisterPost ==
  /\ web_pc = "register"
  /\ effects' = Append(effects, Effect("asana_post", "webhooks"))
  /\ \E answer \in { 200, 403, 500 } :
       response' = [status |-> answer, x_hook_secret |-> << >>,
                    content |-> IF answer = 200 THEN "success"
                                ELSE IF answer = 403 THEN "Asana API error"
                                ELSE "Unexpected error during webhook registration"]
  /\ clients_open' = clients_open - 1
  /\ web_pc' = "responded"
  /\ UNCHANGED << request, event_i, routing, task_data, sections_data,
                  run_vars, parser_vars, calls_vars >>

WebNext ==
  \/ RegisterBegin
  \/ RegisterVerify
  \/ RegisterPost
  \/ ValidateBody
  \/ Handshake
  \/ EmptyPayload
  \/ BeginEvents
  \/ GateEvent
  \/ FetchTask
  \/ FetchAttachments
  \/ CallAgent
  \/ MoveTask
  \/ PostComment
  \/ NotifySlack
  \/ CloseClient
  \/ Respond

\* one request to POST /webhook, handled to its response
WebhookSpec == WebInit /\ [][WebNext]_vars

\* ------------------------------------------------------------------ claims

LastEntry == trajectory[Len(trajectory)]

\* C1: for every sequence of model answers the run ends by returning an
\* outcome (it never ends by raising), after at least 1 and at most max_steps
\* rounds, and the returned trajectory has between 1 and max_steps entries.
C1_TerminatesWithOutcome ==
  /\ pc # "raised"
  /\ rounds <= max_steps
  /\ pc = "done" => /\ rounds >= 1
                    /\ Len(outcome.trajectory) >= 1
                    /\ Len(outcome.trajectory) <= max_steps

\* C2: once a name is a key of the tool-output cache, no later step of the run
\* calls execute_tool with that name.
C2_NoCallOnceCached ==
  [][\A n \in DOMAIN tool_outputs : calls'[n] = calls[n]]_vars

\* C3: within one run execute_tool is called at most once with any one name.
C3_EachToolAtMostOnce == \A n \in Names : calls[n] <= 1

\* the routing_decision of the k-th trajectory entry
RoutingOf(k) == trajectory[k].orchestrator_result.routing_decision

\* a routing_decision that is a list of names, each lower-cased and trimmed
C4_Names(rd) == [i \in DOMAIN rd.v |-> Strip(Lower(rd.v[i]))]

\* ... that consists only of names of the Agent Registry, or is exactly ["done"]
C4_IsTerminal(rd) ==
  /\ rd.k = "list"
  /\ \/ \A i \in DOMAIN rd.v : C4_Names(rd)[i] \in Range(AGENTS)
     \/ C4_Names(rd) = << "done" >>

\* C4: a round k whose routing_decision is terminal is the last round: no
\* further round and no further model call follow it, the secondary dispatch
\* is not entered, the run goes on until it has returned, and the returned
\* outcome has exactly k trajectory entries and carries that routing_decision
\* as final_decision.
C4_TerminalDecisionStops ==
  \A k \in DOMAIN trajectory :
    C4_IsTerminal(RoutingOf(k)) =>
      /\ Len(trajectory) = k
      /\ rounds = k
      /\ model_calls = 2 * k
      /\ pc \in { "merge", "check", "return", "done" }
      /\ pc # "done" => ENABLED Next
      /\ pc = "done" =>
           /\ Len(outcome.trajectory) = k
           /\ outcome.final_decision.routing_decision = RoutingOf(k)

C4_Witness ==
  /\ pc = "done"
  /\ Len(outcome.trajectory) = 3
  /\ outcome.final_decision.routing_decision.v = << "DECLARATION_REVIEW" >>

\* a list of names with at least one name that is not in the Agent Registry,
\* the list not being exactly ["done"]
C5_IsNonTerminal(rd) ==
  /\ rd.k = "list"
  /\ \E i \in DOMAIN rd.v : C4_Names(rd)[i] \notin Range(AGENTS)
  /\ C4_Names(rd) # << "done" >>

\* C5: a round k < max_steps whose routing_decision is non-terminal does not
\* end the run: the run is still inside round k or at the call that starts
\* the next round, or a later round has started; it has neither returned nor
\* raised.
C5_NonTerminalDecisionContinues ==
  \A k \in DOMAIN trajectory :
    (C5_IsNonTerminal(RoutingOf(k)) /\ k < max_steps) =>
      \/ rounds > k
      \/ /\ Len(trajectory) = k
         /\ rounds = k
         /\ pc \in { "merge", "check", "secondary", "select" }
         /\ ENABLED Next

C5_Witness ==
  /\ rounds = 2
  /\ Len(trajectory) = 1
  /\ RoutingOf(1).v = << "unknown_agent" >>

\* C6: there is never an 11th round; after max_steps non-terminal rounds the
\* run returns (it does not raise), the returned trajectory has exactly
\* max_steps entries and final_decision is the result of the last of them.
C6_BudgetExhaustion ==
  /\ rounds <= max_steps
  /\ Len(trajectory) <= max_steps
  /\ steps <= max_steps
  /\ steps = max_steps =>
       /\ pc \in { "return", "done" }
       /\ rounds = max_steps
       /\ Len(trajectory) = max_steps
  /\ (Len(trajectory) = max_steps /\
      \A k \in DOMAIN trajectory : C5_IsNonTerminal(RoutingOf(k))) =>
       /\ pc \in { "merge", "check", "secondary", "return", "done" }
       /\ pc \in { "return", "done" } => steps = max_steps
       /\ pc = "done" =>
            /\ Len(outcome.trajectory) = max_steps
            /\ outcome.final_decision = trajectory[max_steps].orchestrator_result

C6_Witness ==
  /\ pc = "done"
  /\ steps = max_steps
  /\ Len(outcome.trajectory) = max_steps
  /\ \A k \in DOMAIN trajectory : C5_IsNonTerminal(RoutingOf(k))

\* C7: in every returned outcome final_decision is the orchestrator result
\* stored in the last entry of the returned trajectory.
C7_FinalDecisionIsLastRound ==
  pc = "done" =>
    /\ Len(outcome.trajectory) >= 1
    /\ outcome.final_decision =
         outcome.trajectory[Len(outcome.trajectory)].orchestrator_result

C7_Witness ==
  /\ pc = "done"
  /\ Len(outcome.trajectory) >= 2
  /\ outcome.trajectory[1].orchestrator_result # outcome.final_decision

\* C8 as stated: at any point the trajectory has as many entries as rounds
\* were started.
C8_LengthIsRoundsStarted == Len(trajectory) = rounds

\* C8 amended: the trajectory only grows, by one entry at its end, when a
\* round's orchestrator step returns.  Its length is the number of rounds
\* whose orchestrator step has returned: the number of rounds started, or one
\* less while the current round's orchestrator step is running.  The entry
\* appended in round i is entry i and holds that round's result; no step
\* removes, reorders or changes an earlier entry.
C8_AppendOnlyRoundOrdered ==
  [][ /\ Len(trajectory') \in { Len(trajectory), Len(trajectory) + 1 }
      /\ SubSeq(trajectory', 1, Len(trajectory)) = trajectory
      /\ Len(trajectory') =
           IF pc' \in { "dispatch", "decide" } THEN rounds' - 1 ELSE rounds'
      /\ Len(trajectory') = Len(trajectory) + 1 =>
           /\ pc = "decide"
           /\ trajectory'[rounds'].orchestrator_result = orchestrator_result'
    ]_vars

C8_Witness ==
  /\ pc = "dispatch"
  /\ rounds = 4
  /\ Len(trajectory) = 3

\* C9: a key of the tool-output cache is never removed and the value stored
\* under it is never replaced.
C9_CacheWriteOnce ==
  [][ \A n \in DOMAIN tool_outputs :
        /\ n \in DOMAIN tool_outputs'
        /\ tool_outputs'[n] = tool_outputs[n] ]_vars

\* the tool was called again after its result had been cached, and the merge
\* pass of that later round has run
C9_Witness ==
  /\ pc = "check"
  /\ "lookup_HSCode_details" \in DOMAIN tool_outputs
  /\ calls["lookup_HSCode_details"] > tool_outputs["lookup_HSCode_details"].call

\* C10: every key of the tool-output cache is the name of a registered tool.
C10_CacheKeysAreTools == DOMAIN tool_outputs \subseteq ToolNames

\* the calls execute_tool received for registered tool names
RegisteredCalls == Sum([n \in ToolNames |-> calls[n]])

\* every name of the list is an unregistered name
OnlyUnregistered(items) ==
  \A i \in 1 .. Len(items) : items[i] \notin ToolNames

\* C11: execute_tool called with a name that is not a registered tool returns
\* the null result, runs no tool function and does not raise, and a round whose
\* plan names only such tools goes on to its decision model call.
C11_UnknownToolHandling ==
  /\ [](/\ \A n \in DOMAIN tool_outputs :
             n \notin ToolNames => tool_outputs[n].result = "None"
        /\ \A n \in DOMAIN tool_output.d :
             n \notin ToolNames => tool_output.d[n].result = "None"
        /\ Sum(tool_runs) = RegisteredCalls
        /\ failure.kind = "tool" => failure.name \in ToolNames)
  /\ [][ pc = "dispatch" /\ plan.kind = "list" /\ OnlyUnregistered(plan.items)
           => pc' = "decide" ]_vars

\* the plan named an unregistered tool, execute_tool was called with it and the
\* round's decision model call was made
C11_Witness ==
  /\ pc = "merge"
  /\ "unknown_tool" \in DOMAIN tool_output.d
  /\ calls["unknown_tool"] > 0
  /\ Sum(tool_runs) = 0
  /\ model_calls = 2 * rounds

\* C12: agent_output_parser never raises and returns a record with exactly the
\* fields chain_of_thought, routing_decision and confidences; text that is not
\* JSON gives the safe default, and a JSON object holding the three keys gives
\* its three values unchanged.
C12_DecisionParserTotal ==
  parse_pc = "returned" /\ parse_fn = "agent_output_parser" =>
    /\ ~parse_result.raised
    /\ DOMAIN parse_result.value =
         { "chain_of_thought", "routing_decision", "confidences" }
    /\ dec_text.t = "bad" =>
         /\ parse_result.value.chain_of_thought = "Could not parse LLM output."
         /\ parse_result.value.routing_decision = [k |-> "list", v |-> << >>]
         /\ parse_result.value.confidences = NoConfidences
    /\ ( /\ dec_text.t = "obj"
         /\ dec_text.cot # << >>
         /\ dec_text.k # "absent"
         /\ dec_text.conf # << >> ) =>
         /\ parse_result.value.chain_of_thought = dec_text.cot[1]
         /\ parse_result.value.routing_decision =
              [k |-> dec_text.k, v |-> dec_text.v]
         /\ parse_result.value.confidences = dec_text.conf[1]

\* the parser returned for a JSON object with three keys and a non-empty
\* confidences mapping
C12_Witness ==
  /\ parse_pc = "returned"
  /\ parse_fn = "agent_output_parser"
  /\ dec_text.t = "obj"
  /\ dec_text.cot = << "reasoning" >>
  /\ dec_text.k = "list"
  /\ dec_text.v = << "done", "sourcing_logistics" >>
  /\ dec_text.conf # << >>
  /\ DOMAIN dec_text.conf[1] # {}
  /\ parse_result.value.routing_decision.v = << "done", "sourcing_logistics" >>

\* C13: for a JSON object that lacks one or more of the three keys,
\* agent_output_parser returns the safe default: the could-not-parse marker, an
\* empty routing decision and an empty confidences mapping.
C13_MissingKeysGiveDefault ==
  ( /\ parse_pc = "returned"
    /\ parse_fn = "agent_output_parser"
    /\ dec_text.t = "obj"
    /\ dec_text.cot = << >> \/ dec_text.k = "absent" \/ dec_text.conf = << >> )
  =>
    /\ ~parse_result.raised
    /\ parse_result.value.chain_of_thought = "Could not parse LLM output."
    /\ parse_result.value.routing_decision = [k |-> "list", v |-> << >>]
    /\ parse_result.value.confidences = NoConfidences

\* C14: whatever texts the model returns on the two calls of a round, and with
\* no transport failure, runnable_agent does not raise: the only way a run
\* ends without an outcome is a transport failure.
C14_RobustToFormatting ==
  /\ pc = "raised" => failure # NoFailure
  /\ (pc \notin { "idle", "done" } /\ failure = NoFailure) => ENABLED Next

\* C15: a model call or a tool execution that raises ends the run: the error
\* leaves runnable_agent as it was raised, no outcome is returned, and after it
\* no model call and no tool call is made, the failed call included.
C15_TransportFailureIsFatal ==
  /\ [](failure # NoFailure =>
          /\ pc = "failed"
          /\ outcome = NoOutcome
          /\ failure.seq = Sum(calls))
  /\ [](pc = "failed" => failure # NoFailure)
  /\ [][ failure # NoFailure =>
           /\ failure' = failure
           /\ UNCHANGED << model_calls, calls, tool_runs, rounds, outcome,
                           tool_outputs, trajectory >> ]_vars

\* the second tool of a two-tool plan raised in the plan merge, after the first
\* one had been stored
C15_Witness ==
  /\ pc = "failed"
  /\ failure.kind = "tool"
  /\ failure.name = "vector_store_retriever"
  /\ Len(trajectory) = 1
  /\ "lookup_HSCode_details" \in DOMAIN tool_outputs
  /\ "vector_store_retriever" \notin DOMAIN tool_outputs

\* C16: when the model text is a JSON array of strings, decide_and_call_tool
\* returns exactly those strings, in order, each trimmed of surrounding
\* whitespace; none is dropped.
C16_JsonArrayPath ==
  (parse_pc = "returned" /\ parse_fn = "decide_and_call_tool" /\ sel_origin.made) =>
    /\ ~parse_result.raised
    /\ parse_result.value.kind = "list"
    /\ Len(parse_result.value.items) = Len(sel_origin.items)
    /\ \A i \in 1 .. Len(sel_origin.items) :
         parse_result.value.items[i] = sel_origin.items[i].trimmed

\* the parser returned for an array of two strings, the second one padded with
\* spaces and written after a comma and whitespace
C16_Witness ==
  /\ parse_pc = "returned"
  /\ parse_fn = "decide_and_call_tool"
  /\ sel_origin.made
  /\ Len(sel_origin.items) = 2
  /\ sel_origin.items[1].atoms = << "a", ",", "b" >>
  /\ sel_origin.items[2].atoms = << " ", "b", " " >>
  /\ Contains(sel_text, "\n")
  /\ parse_result.value.items = << "a,b", "b" >>

\* json.loads gives a list for the text
YieldsJsonList(text) ==
  LET j == json_loads(StripAtoms(text)) IN j.ok /\ j.kind = "list"

\* C17: for every model text that does not yield a JSON list (not JSON, or a
\* JSON string, number, object or null), decide_and_call_tool returns a
\* sequence of strings: the pieces between commas if the text has a comma,
\* between newlines otherwise, trimmed, without the empty ones; it never
\* returns something that is no sequence.
C17_FallbackTotal ==
  ( /\ parse_pc = "returned"
    /\ parse_fn = "decide_and_call_tool"
    /\ ~YieldsJsonList(sel_text) )
  =>
    /\ ~parse_result.raised
    /\ parse_result.value.kind = "list"
    /\ parse_result.value.items = Fallback(StripAtoms(sel_text))
    /\ \A i \in 1 .. Len(parse_result.value.items) :
         parse_result.value.items[i] # ""
    /\ sel_text = << >> => parse_result.value.items = << >>

\* round 1 selected exactly one name, no agent name and not "done", and its
\* routing decision names configured agents only
C19_Case ==
  /\ Len(trajectory) >= 1
  /\ LET r1 == trajectory[1].orchestrator_result IN
       /\ r1.plan.kind = "list"
       /\ Len(r1.plan.items) = 1
       /\ r1.plan.items[1] \notin allowed_agents \cup { "done", "" }
       /\ r1.routing_decision.k = "list"
       /\ r1.routing_decision.v # << >>
       /\ \A i \in 1 .. Len(r1.routing_decision.v) :
            Strip(Lower(r1.routing_decision.v[i])) \in allowed_agents

\* C19: if round 1 selects exactly one tool name and round 1's routing
\* decision is a configured agent, the run ends after that round with a cache
\* holding exactly one entry, keyed by that name, and a trajectory of length 1.
C19_SelectedToolCachedOnTermination ==
  /\ (pc = "done" /\ C19_Case) =>
       /\ DOMAIN tool_outputs = { trajectory[1].orchestrator_result.plan.items[1] }
       /\ Len(outcome.trajectory) = 1
       /\ rounds = 1
  /\ C19_Case => rounds = 1 /\ pc \in { "merge", "check", "return", "done" }

\* the run ended in round 1 with the selected tool as the only cache entry
C19_Witness ==
  /\ pc = "done"
  /\ C19_Case
  /\ trajectory[1].orchestrator_result.plan.items = << "lookup_HSCode_details" >>
  /\ trajectory[1].orchestrator_result.routing_decision.v = << "sourcing_logistics" >>
  /\ DOMAIN tool_outputs = { "lookup_HSCode_details" }
  /\ tool_outputs["lookup_HSCode_details"].result = "hscode_result"

\* the names call c has stored into its cache object
StoredByCall(c) ==
  { n \in DOMAIN stored_by[invocation[c].cache] :
      stored_by[invocation[c].cache][n] = c }

\* the cache keys a call with these answers has after a round on its own
SoloKeys(ans) ==
  LET plan_ == PlanFor[ans.sel]
      rd == agent_output_parser(ans.dec).routing_decision
      merged == MergeFrom(plan_.items, 1, PassOn(EmptyDict)).dict
  IN IF TerminationCheck(Normalized(rd)) THEN DOMAIN merged
     ELSE DOMAIN SecondaryFrom(Iterate(rd), 1, PassOn(merged)).dict

\* C18: the cache, the trajectory and the step counter belong to one call of
\* runnable_agent: with calls interleaved or one after the other, no call sees
\* in its cache, its prompts or its trajectory what another call stored or
\* appended, and every call starts from an empty cache.
C18_RunIsolation ==
  \A c \in Callers :
    LET inv == invocation[c] IN
    inv.pc # "new" =>
      /\ \A d \in Callers \ { c } :
           invocation[d].pc # "new" =>
             /\ invocation[d].cache # inv.cache
             /\ invocation[d].trajectory # inv.trajectory
      /\ inv.started_with = {}
      /\ DOMAIN caches[inv.cache] = StoredByCall(c)
      /\ DOMAIN caches[inv.cache] \subseteq SoloKeys(inv.answers)
      /\ inv.context_seen \subseteq StoredByCall(c)
      /\ \A i \in 1 .. Len(lists[inv.trajectory]) :
           /\ lists[inv.trajectory][i].by = c
           /\ DOMAIN lists[inv.trajectory][i].tool_outputs \subseteq StoredByCall(c)
      /\ Len(lists[inv.trajectory]) \in { inv.steps, inv.steps + 1 }
      /\ inv.pc = "returned" => inv.outcome.trajectory = lists[inv.trajectory]

\* two calls with different answers have both stored tools, one of them has
\* returned while the other is in a later round
C18_Witness ==
  /\ invocation[1].pc = "returned"
  /\ invocation[2].pc = "update"
  /\ invocation[2].steps = 2
  /\ DOMAIN caches[invocation[1].cache] = { "unknown_tool" }
  /\ DOMAIN caches[invocation[2].cache] = { "lookup_HSCode_details", "unknown_agent" }
  /\ invocation[2].context_seen = { "lookup_HSCode_details", "unknown_agent" }

\* the answer of a handshake: status 200 and the request's secret echoed
HandshakeAnswer ==
  /\ response.status = 200
  /\ response.x_hook_secret = request.x_hook_secret

\* no event of the payload was processed: no call to Asana, the agent or
\* Slack, and the loop over the events was not entered
NothingProcessed ==
  /\ effects = << >>
  /\ clients_open = 0
  /\ event_i = 0
  /\ web_pc \in { "validate", "handler", "responded" }

\* C20 as stated: every POST /webhook request that carries an X-Hook-Secret
\* header is answered with status 200 and the same secret in the X-Hook-Secret
\* response header, and no event of its payload is processed, whatever the
\* payload contains.
C20_HandshakeForAnyHeader ==
  request.x_hook_secret # << >> =>
    /\ NothingProcessed
    /\ web_pc = "responded" => HandshakeAnswer

\* C20 amended: a request whose X-Hook-Secret header has a non-empty value and
\* whose body is absent or a valid payload is answered with status 200 and the
\* same secret, and no event of its payload is processed.
C20_HandshakeForNonEmptySecret ==
  ( /\ request.x_hook_secret \notin { << >>, << "" >> }
    /\ request.body # "invalid" ) =>
    /\ NothingProcessed
    /\ web_pc = "responded" => HandshakeAnswer

\* a request with a secret and a payload of two assignee changes was answered
C20_Witness ==
  /\ web_pc = "responded"
  /\ request.app = "api"
  /\ request.x_hook_secret = << "s3cret" >>
  /\ Len(request.events) = 2
  /\ request.events[1].field = "assignee"
  /\ response.x_hook_secret = << "s3cret" >>

\* the calls of one kind the handler made for event i
EffectsOf(i, kinds) ==
  { n \in DOMAIN effects : effects[n].event = i /\ effects[n].what \in kinds }

\* event i passes the gate of lines 211-237: it is an assignee change of a
\* task, and the task fetched for it is assigned to Glassbox in any case
PassesGate(i) ==
  /\ request.app = "api"
  /\ request.events[i].resource_type = "task"
  /\ request.events[i].action = "changed"
  /\ request.events[i].field_is_str
  /\ request.events[i].field \in { "assignee", " Assignee " }
  /\ i \in DOMAIN task_data
  /\ task_data[i].ok
  /\ task_data[i].assignee \in { << "Glassbox" >>, << "GLASSBOX" >> }

\* C21: orchestrator_agent is called for an event only if the event is a
\* "changed" event of a "task" whose change field, trimmed and lower-cased, is
\* "assignee" and the fetched task's assignee is named "glassbox" in any case;
\* it is called at most once per event, and for every other event there is no
\* agent call, task move, comment or Slack message.
C21_WebhookGating ==
  \A i \in 1 .. Len(request.events) :
    /\ Cardinality(EffectsOf(i, { "orchestrator_agent" })) <= 1
    /\ EffectsOf(i, { "orchestrator_agent", "asana_post", "slack" }) # {}
         => PassesGate(i)

\* the agent was called once for a first event that passes the gate, and the
\* second event, an assignee change of a task of Alice, was dropped
C21_Witness ==
  /\ web_pc = "responded"
  /\ Len(request.events) = 2
  /\ request.events[1].field = " Assignee "
  /\ PassesGate(1)
  /\ task_data[1].assignee = << "GLASSBOX" >>
  /\ Cardinality(EffectsOf(1, { "orchestrator_agent" })) = 1
  /\ EffectsOf(1, { "slack" }) # {}
  /\ 2 \in DOMAIN task_data
  /\ task_data[2].assignee = << "Alice" >>
  /\ EffectsOf(2, { "orchestrator_agent", "asana_post", "slack" }) = {}

\* every event of the payload was taken through the loop of line 200
AllEventsProcessed == event_i = Len(request.events) + 1

\* C22 as stated: a POST /webhook request without an X-Hook-Secret header that
\* reaches the handler is answered with status 200 whatever happens while its
\* events are processed, and a failure while processing one event does not
\* keep the later events of the payload from being processed.
C22_FailureIsolation ==
  ( /\ web_pc = "responded"
    /\ request.app \in { "api", "root" }
    /\ request.x_hook_secret = << >>
    /\ request.body # "invalid" ) =>
    /\ response.status = 200
    /\ request.events # << >> => AllEventsProcessed

\* the names whose outputs the messages of the decision call list
PromptOutputs ==
  UNION { DOMAIN messages[i].tool_outputs : i \in DOMAIN messages }

\* C23 as stated: in each round the selected tools are executed before the
\* round's decision call, and the decision prompt of round N contains every
\* output produced in round N.
C23_RoundOutputsInDecisionPrompt ==
  ( pc = "merge" /\ orchestrator_result.tool_output.kind = "dict" ) =>
    DOMAIN orchestrator_result.tool_output.d \subseteq PromptOutputs

\* how often execute_tool was called with name n since the round began
RoundCalls(n) == calls[n] - round_start.calls[n]

\* the distinct names of the round's tool selection that were not cached when
\* the round began
NewlySelected ==
  { orchestrator_result.plan.items[i] : i \in DOMAIN orchestrator_result.plan.items }
    \ round_start.cached

\* C24 as stated: a round makes exactly two model calls and at most one tool
\* execution per distinct selected name that was not yet cached; cached names
\* and duplicates in the selection cause no tool execution.  Read when the
\* round's selection has been dispatched and merged, before the routing-driven
\* dispatch.
C24_PerRoundCallBound ==
  pc = "check" =>
    /\ model_calls - round_start.model_calls = 2
    /\ \A n \in Names :
         RoundCalls(n) <= IF n \in NewlySelected THEN 1 ELSE 0

\* a name the termination check accepts as an agent or as the sentinel
IsAgentOrSentinel(n) == Strip(Lower(n)) \in Range(AGENTS) \cup { "done" }

\* C25 as stated: a name of the round's tool selection that is an agent name
\* or the "done" sentinel, in any spelling the termination check accepts, is
\* not passed to execute_tool and is not added to the cache by the round's
\* tool-selection pass.
C25_AgentNamesAreNotTools ==
  pc \in { "decide", "merge", "check" } =>
    \A i \in DOMAIN plan.items :
      IsAgentOrSentinel(plan.items[i]) =>
        /\ RoundCalls(plan.items[i]) = 0
        /\ plan.items[i] \in DOMAIN tool_outputs => plan.items[i] \in round_start.cached

\* the names a routing_decision that is a list lists
ListedNames(rd) == { rd.v[i] : i \in DOMAIN rd.v }

\* C26: after a round whose routing_decision (a list of names) does not end
\* the loop, each listed name is executed if and only if it was absent from
\* the cache, its result is stored in the run's cache and the entries already
\* there are kept, so when the next round starts every name of the previous
\* routing_decision is a key of the cache.
C26_SecondaryDispatch ==
  /\ [][( /\ pc = "secondary"
          /\ pc' # "secondary"
          /\ orchestrator_result.routing_decision.k = "list" ) =>
          \A n \in ListedNames(orchestrator_result.routing_decision) :
            /\ n \in DOMAIN tool_outputs'
            /\ IF n \in DOMAIN tool_outputs
               THEN /\ calls'[n] = calls[n]
                    /\ tool_outputs'[n] = tool_outputs[n]
               ELSE /\ calls'[n] = calls[n] + 1
                    /\ tool_outputs'[n].result = execute_tool(n)]_vars
  /\ []( ( /\ pc = "select"
           /\ rounds >= 1
           /\ orchestrator_result.routing_decision.k = "list" ) =>
           ListedNames(orchestrator_result.routing_decision) \subseteq DOMAIN tool_outputs )

\* round 3 starts: the name of round 1's routing_decision was executed and
\* stored after round 1, and was found in the cache after round 2
C26_Witness ==
  /\ pc = "select"
  /\ steps = 2
  /\ RoutingOf(1) = [k |-> "list", v |-> << "unknown_agent" >>]
  /\ RoutingOf(2) = [k |-> "list", v |-> << "unknown_agent" >>]
  /\ calls["unknown_agent"] = 1
  /\ "unknown_agent" \in DOMAIN tool_outputs

\* the cache entries created by the round's plan merge (line 181), read when
\* the merge has run
CreatedThisRound == DOMAIN tool_outputs \ round_start.cached

\* C27 as stated: after round k the tool_outputs snapshot of trajectory entry
\* k contains every cache entry created by round k's tool dispatch.  (That no
\* later step alters an entry, snapshot included, is the step property
\* C8_AppendOnlyRoundOrdered.)
C27_SnapshotHoldsRoundOutputs ==
  pc = "check" =>
    CreatedThisRound \subseteq DOMAIN trajectory[rounds].tool_outputs

\* C28: a run starts with steps = 0, an empty cache and an empty trajectory;
\* steps grows by one exactly when a non-terminating round ends and changes at
\* no other step; always 0 <= steps <= 10 and the trajectory has steps or
\* steps + 1 entries; on return it has steps + 1 entries after an early stop
\* and steps = 10 after budget exhaustion.
C28_StepCounter ==
  /\ []( /\ steps \in 0 .. max_steps
         /\ Len(trajectory) \in { steps, steps + 1 }
         /\ rounds = 0 => /\ steps = 0
                          /\ tool_outputs = EmptyDict
                          /\ trajectory = << >>
         /\ pc = "done" =>
              IF C4_IsTerminal(outcome.final_decision.routing_decision)
              THEN Len(outcome.trajectory) = steps + 1
              ELSE steps = max_steps /\ Len(outcome.trajectory) = max_steps )
  /\ [][ IF pc = "secondary" /\ pc' # "secondary"
         THEN steps' = steps + 1
         ELSE steps' = steps ]_vars

\* a run that stopped early in its third round
C28_Witness ==
  /\ pc = "done"
  /\ steps = 2
  /\ Len(outcome.trajectory) = 3
  /\ C4_IsTerminal(outcome.final_decision.routing_decision)

\* the routing_decision []
EmptyRouting == [k |-> "list", v |-> << >>]

\* the decision text of round k is not JSON, or is a JSON object without the
\* routing_decision key
Malformed(k) ==
  LET text == trajectory[k].orchestrator_result.llm_response IN
    text.t = "bad" \/ (text.t = "obj" /\ text.k = "absent")

\* C29: a round whose parsed decision has routing_decision = [] is the last
\* round: the loop stops on it without entering the secondary dispatch or a
\* further round.  Unparseable decision text and a JSON object without the
\* routing_decision key are parsed to []; such a response in round 1 ends the
\* run with a trajectory of length 1 after the round's two model calls.
C29_EmptyRoutingStops ==
  \A k \in DOMAIN trajectory :
    /\ Malformed(k) => RoutingOf(k) = EmptyRouting
    /\ RoutingOf(k) = EmptyRouting =>
         /\ Len(trajectory) = k
         /\ rounds = k
         /\ steps = k - 1
         /\ pc \in { "merge", "check", "return", "done" }
         /\ pc = "done" =>
              /\ Len(outcome.trajectory) = k
              /\ model_calls = 2 * k
              /\ outcome.final_decision.routing_decision = EmptyRouting

\* the run returned after one round whose decision text was not JSON
C29_Witness ==
  /\ pc = "done"
  /\ rounds = 1
  /\ trajectory[1].orchestrator_result.llm_response.t = "bad"
  /\ Len(outcome.trajectory) = 1
  /\ model_calls = 2

\* a list of two or more names, one of them the sentinel
MixesSentinel(rd) ==
  /\ rd.k = "list"
  /\ Len(rd.v) >= 2
  /\ \E i \in DOMAIN rd.v : rd.v[i] = "done"

\* C30: a routing_decision that mixes "done" with other names, or repeats it,
\* does not end the loop: the round goes on to the secondary dispatch, which
\* stores "done" and the other names as cache keys with null results; the run
\* returns after such a round only when the budget is exhausted.
C30_MixedSentinelContinues ==
  \A k \in DOMAIN trajectory :
    MixesSentinel(RoutingOf(k)) =>
      IF steps < k
      THEN /\ rounds = k
           /\ pc \in { "merge", "check", "secondary" }
      ELSE /\ pc \in { "return", "done" } /\ Len(trajectory) = k => k = max_steps
           /\ \A n \in ListedNames(RoutingOf(k)) :
                /\ n \in DOMAIN tool_outputs
                /\ tool_outputs[n].result = "None"

\* round 2 is about to start after a round that answered ["done",
\* "sourcing_logistics"]: both names are cache keys with null results
C30_Witness ==
  /\ pc = "select"
  /\ steps = 1
  /\ RoutingOf(1).v = << "done", "sourcing_logistics" >>
  /\ DOMAIN tool_outputs = { "done", "sourcing_logistics" }
  /\ tool_outputs["done"].result = "None"
  /\ tool_outputs["sourcing_logistics"].result = "None"
  /\ calls["done"] = 1

\* C31 as stated: in a round that ends the loop the secondary dispatch is not
\* run, the cache is changed only by the round's tool-selection merge and no
\* tool is executed after the terminating decision has been parsed; the
\* termination check always comes before the secondary dispatch, and after a
\* secondary dispatch termination is checked again only in a new round.
C31_NoDispatchAfterTermination ==
  [][ /\ ( /\ pc \in { "merge", "check", "return" }
           /\ Len(trajectory) = rounds
           /\ C4_IsTerminal(orchestrator_result.routing_decision) ) =>
           /\ pc' # "secondary"
           /\ tool_outputs' # tool_outputs => pc = "merge"
           /\ calls' = calls
      /\ pc' = "secondary" => pc \in { "check", "secondary" }
      /\ pc = "secondary" => pc' \in { "secondary", "select", "return" }
    ]_vars

\* a routing_decision that is the bare string of an agent name or of "done"
BareFinalName(rd) ==
  /\ rd.k = "str"
  /\ rd.v[1] \in Range(AGENTS) \cup { "done" }

\* C32 as stated: a routing_decision given as a bare agent name or a bare
\* "done" is handled like the one-element list of that string: the round that
\* answers it is the last round, and the cache holds nothing but what was
\* cached before the round and the names of the round's tool selection.
C32_BareStringLikeList ==
  \A k \in DOMAIN trajectory :
    BareFinalName(RoutingOf(k)) =>
      /\ Len(trajectory) = k
      /\ rounds = k
      /\ pc \in { "merge", "check", "return", "done" }
      /\ DOMAIN tool_outputs \subseteq
           round_start.cached \cup
           { orchestrator_result.plan.items[i] : i \in DOMAIN orchestrator_result.plan.items }

\* the calls the handler makes in a step
NewEffects == { effects'[n] : n \in Len(effects) + 1 .. Len(effects') }

\* routing_decision is a non-empty list whose first name, lower-cased, is a
\* key of routing_mapping
MappedRoute(rd) ==
  /\ rd.k = "list"
  /\ rd.v # << >>
  /\ Lower(rd.v[1]) \in
       { "declaration_review", "regulatory_sustainability", "sourcing_logistics" }

\* C33: the task of a processed event is moved only if routing_decision is a
\* non-empty list whose first element, lower-cased, is a mapped route and the
\* project has a section with the mapped name; a Slack notification goes to
\* the channel mapped to that first element, and to "#claims-escalation" in
\* every other case.
C33_WebhookRouting ==
  [][ \A e \in NewEffects :
        /\ (e.what = "asana_post" /\ e.arg = "addProject") =>
             /\ MappedRoute(routing)
             /\ sections_data'.ok
             /\ routing_mapping[Lower(routing.v[1])].asana_section
                  \in sections_data'.names
        /\ e.what = "slack" =>
             e.arg = IF MappedRoute(routing)
                     THEN routing_mapping[Lower(routing.v[1])].slack_channel
                     ELSE "#claims-escalation" ]_vars

\* the task was moved for ["DECLARATION_REVIEW", "done"] and the Slack message
\* went to the channel of declaration_review
C33_Witness ==
  /\ web_pc = "close"
  /\ routing = [k |-> "list", v |-> << "DECLARATION_REVIEW", "done" >>]
  /\ EffectsOf(event_i, { "asana_post" }) # {}
  /\ \E n \in DOMAIN effects :
       /\ effects[n].event = event_i
       /\ effects[n].arg = "addProject"
  /\ effects[Len(effects)] =
       [event |-> event_i, what |-> "slack",
        arg |-> "#cases-escalation-ambiguous-regulation"]

\* the place of a call in the order agent call, section move, comment, Slack
StepRank(e) ==
  CASE e.what = "orchestrator_agent" -> 1
    [] e.what = "asana_get" /\ e.arg = "sections" -> 2
    [] e.what = "asana_post" /\ e.arg = "addProject" -> 2
    [] e.what = "asana_post" /\ e.arg = "stories" -> 3
    [] e.what = "slack" -> 4
    [] OTHER -> 0

\* C34 as stated: for a processed event the handler makes one agent call, then
\* the section move attempt, then the comment post, then the Slack
\* notification, in this order; no Asana write or Slack message comes before
\* the agent call has returned, and once the agent has returned the comment
\* and the Slack message are sent whatever happens in the steps before them.
C34_StepOrdering ==
  \A i \in 1 .. Len(request.events) :
    /\ \A n, m \in DOMAIN effects :
         (n < m /\ effects[n].event = i /\ effects[m].event = i) =>
           /\ StepRank(effects[n]) <= StepRank(effects[m])
           /\ StepRank(effects[m]) >= 2 =>
                \E a \in 1 .. m - 1 :
                  effects[a] = [event |-> i, what |-> "orchestrator_agent",
                                arg |-> "returned"]
    /\ ( /\ event_i > i \/ web_pc = "responded"
         /\ \E a \in DOMAIN effects :
              effects[a] = [event |-> i, what |-> "orchestrator_agent",
                            arg |-> "returned"] ) =>
         /\ Cardinality(EffectsOf(i, { "orchestrator_agent" })) = 1
         /\ \E n \in EffectsOf(i, { "asana_post" }) : effects[n].arg = "stories"
         /\ EffectsOf(i, { "slack" }) # {}

\* C35 as stated: every Asana client opened by asana_webhook for an event, and
\* by register_webhook, is closed before the handler goes on to the next event
\* or returns, on every path.
C35_ClientsClosed ==
  web_pc \in { "event", "responded" } => clients_open = 0

\* C36 - registry/dispatcher agreement: execute_tool runs a tool function for
\* a name exactly when the name is one of the four names of TOOLS, compared
\* case-sensitively; for every other name, agent names and "done" included, no
\* function is run and the value returned is null
C36_RegistryDispatcherAgreement ==
  (parse_pc = "returned" /\ parse_fn = "execute_tool") =>
    /\ (parse_result.value.function \in ToolFunctions) <=> (sel_text[1] \in Range(TOOLS))
    /\ sel_text[1] \notin Range(TOOLS) =>
         /\ parse_result.value.function = "none"
         /\ parse_result.value.result = "None"
    /\ ~parse_result.raised

\* execute_tool has returned null for a tool name written in lower case
C36_Witness ==
  /\ parse_pc = "returned"
  /\ parse_fn = "execute_tool"
  /\ sel_text = << "lookup_hscode_details" >>
  /\ parse_result.value = [function |-> "none", result |-> "None"]

====
